---- MODULE Spec2Model ----
(***************************************************************************)
(* Model of the generator-based data access layer of                       *)
(* python-generators-0x00: get_connection, stream_users,                   *)
(* stream_users_in_batches, batch_processing, paginate_users,              *)
(* lazy_paginate and stream_user_ages, driven by a single-threaded         *)
(* consumer that pulls (next) and abandons (close) generators; and of      *)
(* OffensiveLanguageMiddleware of Django-Middleware-0x03.                  *)
(***************************************************************************)
EXTENDS Integers, Sequences, FiniteSets, TLC

VARIABLES
    table,   \* rows of user_data, in the order a SELECT returns them
    gens,    \* generator objects, in creation order
    conns,   \* connections made by mysql.connector.connect, in creation order
    writes,  \* number of inserts and deletes other clients made to user_data
    acc,     \* the frame of calculate_average_age
    request_history,  \* OffensiveLanguageMiddleware.request_history
    now,              \* what time.time() returned last, in seconds
    served,           \* the chat requests passed to get_response: ip, time
    response,         \* what __call__ returned last
    handled,          \* number of requests __call__ has handled
    env,              \* os.environ after load_dotenv(): the settings that are set
    access,           \* what RestrictAccessByTimeMiddleware.__call__ did last
    threads,          \* the __call__ each server thread is executing
    conversation,     \* the Conversation row: participants, is_active
    handlers,         \* the ConversationViewSet action each worker is handling
    seed              \* the main script of seed.py

(* The state of OffensiveLanguageMiddleware and of its clock. *)
middleware == <<request_history, now, served, response, handled>>

(* The state of the other programs of the repository. *)
rest == <<access, threads, conversation, handlers, seed>>

(* The state outside the generators, their consumers and the rate
   limiter. *)
outside == <<env, rest>>

(* The variables the generators do not touch. *)
others == <<writes, acc, middleware, outside>>

vars == <<table, gens, conns, writes, acc, middleware, outside>>

----------------------------------------------------------------------------
(* Bounds of the model *)

MaxRows == 3
MaxSize == 3
MaxWrites == 2
MaxOffset == 6
MaxPulls == 6
MaxGens == 2
MaxRequests == 7

(* Ages stored in generated tables; 25 is the boundary of the filter. *)
AgeValues == {20, 25, 26}

(* The five-row table of the worked scenarios. *)
ScenarioAges == <<20, 26, 30, 18, 40>>

----------------------------------------------------------------------------
(* Values *)

Min(a, b) == IF a <= b THEN a ELSE b

Last(s) == s[Len(s)]

RECURSIVE Pow10(_)
Pow10(n) == IF n = 0 THEN 1 ELSE 10 * Pow10(n - 1)

RECURSIVE Concat(_)
Concat(ss) == IF ss = <<>> THEN <<>> ELSE Head(ss) \o Concat(Tail(ss))

(* age DECIMAL NOT NULL: the driver hands the column back as a decimal of
   scale 0. *)
Decimal(n) == [unscaled |-> n, scale |-> 0]

(* int(x) on a decimal: truncation toward zero. *)
PyInt(d) ==
    LET p == Pow10(d.scale)
    IN  IF d.unscaled >= 0 THEN d.unscaled \div p ELSE -((-d.unscaled) \div p)

(* One row of user_data (dictionary=True): user_id and age; name and email
   are carried along unchanged by every producer and are left out. *)
Row(i, a) == [user_id |-> i, age |-> Decimal(a)]

MkTable(ages) == [i \in 1..Len(ages) |-> Row(i, ages[i])]

Tables ==
    {MkTable(s) : s \in UNION {[1..n -> AgeValues] : n \in 0..MaxRows}}
        \cup {MkTable(ScenarioAges)}

Sizes == 1..MaxSize

Kinds ==
    {"stream_users", "stream_users_in_batches", "batch_processing",
     "lazy_paginate", "stream_user_ages"}

(* The producers that run the page query: lazy_paginate through
   paginate_users, and paginate_users called on its own. *)
Paged == {"lazy_paginate", "paginate_users"}

Sized == {"stream_users_in_batches", "batch_processing", "lazy_paginate"}

Calls ==
    {<<k, 0>> : k \in Kinds \ Sized} \cup {<<k, n>> : k \in Sized, n \in Sizes}

----------------------------------------------------------------------------
(* The data source *)

(* SELECT * FROM user_data *)
SelectAll(t) == t

(* SELECT age FROM user_data *)
SelectAge(t) == [i \in 1..Len(t) |-> [age |-> t[i].age]]

(* Mutant of SelectPage: LIMIT counts one row too many. *)
SelectPageOneMore(t, lim, off) == SubSeq(t, off + 1, Min(off + lim + 1, Len(t)))

(* SELECT * FROM user_data LIMIT lim OFFSET off *)
SelectPage(t, lim, off) == SubSeq(t, off + 1, Min(off + lim, Len(t)))

(* The statement each producer executes, as logged in queries. *)
Statement(gen) ==
    CASE gen.kind \in Paged ->
            [sql |-> "SELECT * FROM user_data LIMIT %s OFFSET %s",
             limit |-> gen.size, offset |-> gen.offset]
      [] gen.kind = "stream_user_ages" ->
            [sql |-> "SELECT age FROM user_data", limit |-> 0, offset |-> 0]
      [] OTHER ->
            [sql |-> "SELECT * FROM user_data", limit |-> 0, offset |-> 0]

(* Mutant of ResultSet: the OFFSET of the page query is not passed on. *)
ResultSetIgnoresOffset(gen, t) ==
    CASE gen.kind \in Paged -> SelectPage(t, gen.size, 0)
      [] gen.kind = "stream_user_ages" -> SelectAge(t)
      [] OTHER -> SelectAll(t)

(* What cursor.execute leaves in the cursor. *)
ResultSet(gen, t) ==
    CASE gen.kind \in Paged -> SelectPage(t, gen.size, gen.offset)
      [] gen.kind = "stream_user_ages" -> SelectAge(t)
      [] OTHER -> SelectAll(t)

----------------------------------------------------------------------------
(* Generator objects and connections *)

(* Mutant of NewGen: the producer is an ordinary function whose body runs
   when it is called, up to mysql.connector.connect. *)
NewGenStarted(kind, size, parent) ==
    [kind |-> kind, size |-> size, parent |-> parent, child |-> 0,
     pc |-> "connect", how |-> "none",
     conn |-> 0, rs |-> <<>>, pos |-> 0, offset |-> 0, page |-> <<>>,
     yielded |-> <<>>, fetches |-> <<>>, queries |-> <<>>,
     err |-> "none", pulls |-> 0, connects |-> 0]

(* A generator object that has been created and not yet pulled.
   pc: created | connect | execute | fetch | suspended | exhausted |
       return | calling | closed
   how: how a closed generator ended: return | raise | exit (GeneratorExit)
   err: the call that raised: none | connect | execute | fetch | int
   pulls: next() calls made on it; connects: mysql.connector.connect calls *)
NewGen(kind, size, parent) ==
    [kind |-> kind, size |-> size, parent |-> parent, child |-> 0,
     pc |-> "created", how |-> "none",
     conn |-> 0, rs |-> <<>>, pos |-> 0, offset |-> 0, page |-> <<>>,
     yielded |-> <<>>, fetches |-> <<>>, queries |-> <<>>,
     err |-> "none", pulls |-> 0, connects |-> 0]

(* os.getenv(key, default) *)
getenv(key, default) == IF key \in DOMAIN env THEN env[key] ELSE default

(* Mutant of DatabaseSetting: every producer reads DB_NAME. *)
DatabaseSettingShared(kind) == "DB_NAME"

(* The setting get_connection of the producer's file reads for the
   database: DB_NAME in 0-stream_users.py and 1-batch_processing.py,
   DB_DATABASE in 2-lazy_paginate.py and 4-stream_ages.py. *)
DatabaseSetting(kind) ==
    IF kind \in {"stream_users", "stream_users_in_batches"}
    THEN "DB_NAME" ELSE "DB_DATABASE"

(* The connection mysql.connector.connect returns to generator g. *)
NewConn(g) ==
    [open |-> TRUE, closes |-> 0, owner |-> g,
     database |-> getenv(DatabaseSetting(gens[g].kind), "ALX_prodev")]

(* connection.close() in the finally of get_connection *)
CloseConn(cs, c) ==
    [cs EXCEPT ![c] = [@ EXCEPT !.open = FALSE, !.closes = @ + 1]]

(* No response yet. *)
NoResponse == [status |-> 0, forwarded |-> FALSE, chat |-> FALSE, ip |-> <<>>]

(* OffensiveLanguageMiddleware after __init__: request_history is an empty
   defaultdict(list). *)
NoRequests ==
    /\ request_history = [ip \in {} |-> <<>>]
    /\ now = 0
    /\ served = <<>>
    /\ response = NoResponse
    /\ handled = 0

(* RestrictAccessByTimeMiddleware has handled no request. *)
NoAccess ==
    [handled |-> FALSE, status |-> 0, forwarded |-> FALSE,
     time |-> [hour |-> 0, minute |-> 0, second |-> 0, microsecond |-> 0]]

(* The server threads that share the OffensiveLanguageMiddleware
   instance. *)
Threads == {1, 2}

(* A thread that is not inside __call__.
   pc: idle | cleanup | assign | check | append *)
IdleThread == [pc |-> "idle", ip |-> <<>>, current_time |-> 0, kept |-> <<>>]

(* The users of the messaging app. *)
Users == {"u1", "u2", "u3"}

(* The workers that serve the requests of the messaging app. *)
Workers == {1, 2}

(* A worker that is handling no request; status is that of its last
   response.  pc: idle | decide *)
IdleHandler(status) ==
    [pc |-> "idle", action |-> "none", requester |-> "none", user |-> "none",
     count |-> 0, status |-> status]

(* No conversation has been created and no request handled. *)
NoConversation ==
    /\ conversation = [participants |-> {}, is_active |-> FALSE]
    /\ handlers = [w \in Workers |-> IdleHandler(0)]

(* The values of the main script of seed.py: nothing assigned yet, None,
   the connection mysql.connector.connect returns, and the generator object
   a call of a generator function returns. *)
Unassigned == [type |-> "unassigned", open |-> FALSE]

None == [type |-> "NoneType", open |-> FALSE]

Connection == [type |-> "MySQLConnection", open |-> TRUE]

GeneratorObject == [type |-> "generator", open |-> FALSE]

(* seed.py before its main script runs, with the MySQL server reachable
   or not.
   pc: start | guard | create_database | connect_to_prodev | crashed *)
NewSeed(server_up) ==
    [pc |-> "start", server_up |-> server_up, server_conn |-> Unassigned,
     connects |-> 0, created |-> FALSE, closed |-> FALSE, error |-> "none"]

(* The other programs of the repository have not run. *)
Idle ==
    /\ access = NoAccess
    /\ threads = [t \in Threads |-> IdleThread]
    /\ NoConversation
    /\ seed = NewSeed(FALSE)

(* No setting is set and nothing else has happened outside. *)
Untouched ==
    /\ env = [key \in {} |-> ""]
    /\ Idle

(* calculate_average_age has not been called. *)
NoAverage == [pc |-> "idle", total |-> 0, count |-> 0, average |-> <<0, 1>>]

Init ==
    /\ table \in Tables
    /\ \E call \in Calls : gens = <<NewGen(call[1], call[2], 0)>>
    /\ conns = <<>>
    /\ writes = 0
    /\ acc = NoAverage
    /\ NoRequests
    /\ Untouched

----------------------------------------------------------------------------
(* Leaving the with blocks of a generator *)

(* Mutant of ExitBlock: get_connection without try/finally, so that
   connection.close() runs only when the block ends normally. *)
ExitBlockNoFinally(cs, gen, why) ==
    IF gen.conn = 0 \/ why # "return" THEN cs ELSE CloseConn(cs, gen.conn)

(* __exit__ of the with get_connection() block: the finally of
   get_connection runs connection.close() whatever ends the block
   (why: return | raise | exit). *)
ExitBlock(cs, gen, why) ==
    IF gen.conn = 0 THEN cs ELSE CloseConn(cs, gen.conn)

(* The generator's frame is gone; it yields nothing further. *)
Ended(gen, why) == [gen EXCEPT !.pc = "closed", !.how = why, !.conn = 0]

(* The call named by e raised and nothing in the generator catches it. *)
Raised(gen, e) == [Ended(gen, "raise") EXCEPT !.err = e]

----------------------------------------------------------------------------
(* next() on a generator *)

(* Mutant of NextOffset: the offset is advanced by one row, not by one
   page. *)
NextOffsetByOne(gen) == gen.offset + 1

(* Mutant of NextOffset: the offset is advanced by two pages. *)
NextOffsetTwoPages(gen) == gen.offset + 2 * gen.size

(* offset += page_size *)
NextOffset(gen) == gen.offset + gen.size

(* Mutant of ResumeGen: lazy_paginate advances its offset before the first
   page is fetched. *)
ResumeGenAdvancesFirst(gen) ==
    IF gen.pc = "created"
    THEN [gen EXCEPT !.pc = "connect", !.pulls = @ + 1,
                     !.offset = IF gen.kind = "lazy_paginate"
                                THEN gen.size ELSE 0]
    ELSE IF gen.kind = "lazy_paginate"
         THEN [gen EXCEPT !.pc = "connect", !.pulls = @ + 1,
                          !.offset = gen.offset + gen.size]
         ELSE [gen EXCEPT !.pc = "fetch", !.pulls = @ + 1]

(* Where a generator without an inner generator continues when next() is
   called on it: a created one starts its body and reaches
   mysql.connector.connect; one suspended at its yield goes round its
   loop. *)
ResumeGen(gen) ==
    IF gen.pc = "created"
    THEN [gen EXCEPT !.pc = "connect", !.pulls = @ + 1, !.offset = 0]
    ELSE IF gen.kind = "lazy_paginate"
         THEN [gen EXCEPT !.pc = "connect", !.pulls = @ + 1,
                          !.offset = NextOffset(gen)]
         ELSE [gen EXCEPT !.pc = "fetch", !.pulls = @ + 1]

(* next() on batch_processing: the for statement creates the inner
   stream_users_in_batches generator on the first pull, and calls next()
   on it. *)
ResumeOuter(gs, g) ==
    IF gs[g].pc = "created"
    THEN Append([gs EXCEPT ![g] = [@ EXCEPT !.pc = "calling",
                                            !.pulls = @ + 1,
                                            !.child = Len(gs) + 1]],
                ResumeGen(NewGen("stream_users_in_batches", gs[g].size, g)))
    ELSE [gs EXCEPT ![g] = [@ EXCEPT !.pc = "calling", !.pulls = @ + 1],
                    ![gs[g].child] = ResumeGen(@)]

(* The consumer calls next() on a generator it holds. *)
Pull(g) ==
    /\ gens[g].parent = 0
    /\ gens[g].pc \in {"created", "suspended"}
    /\ gens' = IF gens[g].kind = "batch_processing"
               THEN ResumeOuter(gens, g)
               ELSE [gens EXCEPT ![g] = ResumeGen(@)]
    /\ UNCHANGED <<table, conns>>

----------------------------------------------------------------------------
(* get_connection and the query *)

(* Mutant of Connect: get_connection hands out a connection that is
   already open, when there is one, instead of connecting. *)
ConnectShared(g) ==
    /\ gens[g].pc = "connect"
    /\ LET open == {c \in DOMAIN conns : conns[c].open}
       IN  IF open = {}
           THEN /\ conns' = Append(conns, NewConn(g))
                /\ gens' = [gens EXCEPT ![g] =
                               [@ EXCEPT !.conn = Len(conns) + 1,
                                         !.connects = @ + 1,
                                         !.pc = "execute"]]
           ELSE /\ conns' = conns
                /\ gens' = [gens EXCEPT ![g] =
                               [@ EXCEPT !.conn = CHOOSE c \in open : TRUE,
                                         !.connects = @ + 1,
                                         !.pc = "execute"]]
    /\ UNCHANGED table

(* mysql.connector.connect succeeds; the with block is entered. *)
Connect(g) ==
    /\ gens[g].pc = "connect"
    /\ conns' = Append(conns, NewConn(g))
    /\ gens' = [gens EXCEPT ![g] = [@ EXCEPT !.conn = Len(conns) + 1,
                                             !.connects = @ + 1,
                                             !.pc = "execute"]]
    /\ UNCHANGED table

(* Mutant of ConnectFail: the producer catches the connection error and
   ends as if the table were empty. *)
ConnectFailSwallowed(g) ==
    /\ gens[g].pc = "connect"
    /\ gens' = [gens EXCEPT ![g] =
                   Ended([@ EXCEPT !.connects = @ + 1], "return")]
    /\ UNCHANGED <<table, conns>>

(* mysql.connector.connect raises: nothing was acquired and the error
   leaves the generator. *)
ConnectFail(g) ==
    /\ gens[g].pc = "connect"
    /\ gens' = [gens EXCEPT ![g] =
                   Raised([@ EXCEPT !.connects = @ + 1], "connect")]
    /\ UNCHANGED <<table, conns>>

(* The server rejects the statement: a negative LIMIT or OFFSET is a
   syntax error. *)
Rejected(gen) == gen.kind \in Paged /\ (gen.size < 0 \/ gen.offset < 0)

(* cursor.execute(...) *)
Execute(g) ==
    /\ gens[g].pc = "execute"
    /\ ~Rejected(gens[g])
    /\ gens' = [gens EXCEPT ![g] =
                   [@ EXCEPT !.rs = ResultSet(gens[g], table),
                             !.pos = 0,
                             !.queries = Append(@, Statement(gens[g])),
                             !.pc = "fetch"]]
    /\ UNCHANGED <<table, conns>>

(* Mutant of ExecuteFail: the producer catches the error of
   cursor.execute, leaves the with block and ends as if the table were
   empty. *)
ExecuteFailSwallowed(g) ==
    /\ gens[g].pc = "execute"
    /\ conns' = ExitBlock(conns, gens[g], "return")
    /\ gens' = [gens EXCEPT ![g] = Ended(@, "return")]
    /\ UNCHANGED table

(* cursor.execute raises inside the with block. *)
ExecuteFail(g) ==
    /\ gens[g].pc = "execute"
    /\ conns' = ExitBlock(conns, gens[g], "raise")
    /\ gens' = [gens EXCEPT ![g] = Raised(@, "execute")]
    /\ UNCHANGED table

(* Reading from the cursor raises inside the with block. *)
FetchFail(g) ==
    /\ gens[g].pc = "fetch"
    /\ conns' = ExitBlock(conns, gens[g], "raise")
    /\ gens' = [gens EXCEPT ![g] = Raised(@, "fetch")]
    /\ UNCHANGED table

----------------------------------------------------------------------------
(* stream_users and stream_user_ages *)

(* What the row streamers yield for a row. *)
RowValue(gen, row) ==
    IF gen.kind = "stream_user_ages" THEN PyInt(row.age) ELSE row

(* Mutant of FetchRow: the loop stops one row early. *)
FetchRowDropsLast(g) ==
    /\ gens[g].kind \in {"stream_users", "stream_user_ages"}
    /\ gens[g].pc = "fetch"
    /\ gens' = [gens EXCEPT ![g] =
                   IF @.pos + 1 < Len(@.rs)
                   THEN [@ EXCEPT !.pos = @ + 1,
                                  !.fetches = Append(@, 1),
                                  !.yielded =
                                      Append(@, RowValue(gens[g],
                                                 gens[g].rs[gens[g].pos + 1])),
                                  !.pc = "suspended"]
                   ELSE [@ EXCEPT !.fetches = Append(@, 0),
                                  !.pc = "exhausted"]]
    /\ UNCHANGED <<table, conns>>

(* for row in cursor: yield ... : one row is taken from the cursor and
   yielded, or the cursor is empty and the loop ends. *)
FetchRow(g) ==
    /\ gens[g].kind \in {"stream_users", "stream_user_ages"}
    /\ gens[g].pc = "fetch"
    /\ gens' = [gens EXCEPT ![g] =
                   IF @.pos < Len(@.rs)
                   THEN [@ EXCEPT !.pos = @ + 1,
                                  !.fetches = Append(@, 1),
                                  !.yielded =
                                      Append(@, RowValue(gens[g],
                                                 gens[g].rs[gens[g].pos + 1])),
                                  !.pc = "suspended"]
                   ELSE [@ EXCEPT !.fetches = Append(@, 0),
                                  !.pc = "exhausted"]]
    /\ UNCHANGED <<table, conns>>

(* int(row["age"]) raises on the row just taken from the cursor, inside the
   with block of stream_user_ages (the producers do not check the type of
   the column they are handed). *)
IntFail(g) ==
    /\ gens[g].kind = "stream_user_ages"
    /\ gens[g].pc = "fetch"
    /\ gens[g].pos < Len(gens[g].rs)
    /\ conns' = ExitBlock(conns, gens[g], "raise")
    /\ gens' = [gens EXCEPT ![g] =
                   Raised([@ EXCEPT !.pos = @ + 1,
                                    !.fetches = Append(@, 1)], "int")]
    /\ UNCHANGED table

(* Mutant of Release: the generator returns without leaving the with
   block of get_connection. *)
ReleaseKeepsConnection(g) ==
    /\ gens[g].pc = "exhausted"
    /\ gens' = [gens EXCEPT ![g] = Ended(@, "return")]
    /\ UNCHANGED <<table, conns>>

(* The loop of a streamer has ended: the with blocks are left and the
   generator returns. *)
Release(g) ==
    /\ gens[g].pc = "exhausted"
    /\ conns' = ExitBlock(conns, gens[g], "return")
    /\ gens' = [gens EXCEPT ![g] = Ended(@, "return")]
    /\ UNCHANGED table

----------------------------------------------------------------------------
(* stream_users_in_batches *)

(* Mutant of FetchManyRows: one row too many is fetched. *)
FetchManyRowsOneMore(gen) ==
    SubSeq(gen.rs, gen.pos + 1, Min(gen.pos + gen.size + 1, Len(gen.rs)))

(* cursor.fetchmany(batch_size) *)
FetchManyRows(gen) ==
    SubSeq(gen.rs, gen.pos + 1, Min(gen.pos + gen.size, Len(gen.rs)))

(* Mutant of FetchMany: the loop breaks on a short batch
   (if len(batch) < batch_size: break) instead of on an empty one. *)
FetchManyBreaksOnShort(g) ==
    /\ gens[g].kind = "stream_users_in_batches"
    /\ gens[g].pc = "fetch"
    /\ LET batch == SubSeq(gens[g].rs, gens[g].pos + 1,
                           Min(gens[g].pos + gens[g].size, Len(gens[g].rs)))
           short == Len(batch) < gens[g].size
       IN  gens' = [gens EXCEPT ![g] =
                       [@ EXCEPT !.pos = @ + Len(batch),
                                 !.fetches = Append(@, Len(batch)),
                                 !.yielded = IF short THEN @
                                             ELSE Append(@, batch),
                                 !.pc = IF short THEN "exhausted"
                                        ELSE "suspended"]]
    /\ UNCHANGED <<table, conns>>

(* batch = cursor.fetchmany(batch_size); if not batch: break; yield batch *)
FetchMany(g) ==
    /\ gens[g].kind = "stream_users_in_batches"
    /\ gens[g].pc = "fetch"
    /\ LET batch == FetchManyRows(gens[g])
       IN  gens' = [gens EXCEPT ![g] =
                       [@ EXCEPT !.pos = @ + Len(batch),
                                 !.fetches = Append(@, Len(batch)),
                                 !.yielded = IF batch = <<>> THEN @
                                             ELSE Append(@, batch),
                                 !.pc = IF batch = <<>> THEN "exhausted"
                                        ELSE "suspended"]]
    /\ UNCHANGED <<table, conns>>

----------------------------------------------------------------------------
(* batch_processing *)

AgeThreshold == 25

(* Mutant of Over25: the comparison includes 25. *)
Over25Inclusive(user) == PyInt(user.age) >= AgeThreshold

(* int(user["age"]) > 25 *)
Over25(user) == PyInt(user.age) > AgeThreshold

(* list(user for user in batch if int(user["age"]) > 25) *)
FilterBatch(batch) == SelectSeq(batch, Over25)

(* Mutant of BatchProcessingNext: batch_processing returns at the first
   batch that is empty after filtering. *)
BatchProcessingNextStops(g) ==
    /\ gens[g].kind = "batch_processing"
    /\ gens[g].pc = "calling"
    /\ gens[gens[g].child].pc = "suspended"
    /\ LET c == gens[g].child
           filtered_list == FilterBatch(Last(gens[c].yielded))
       IN  gens' = IF filtered_list # <<>>
                   THEN [gens EXCEPT ![g] =
                            [@ EXCEPT !.yielded = Append(@, filtered_list),
                                      !.pc = "suspended"]]
                   ELSE [gens EXCEPT ![g] =
                            [@ EXCEPT !.pc = "closed", !.how = "return"]]
    /\ UNCHANGED <<table, conns>>

(* The inner generator has yielded a batch: it is filtered, and yielded
   when something is left; otherwise the for loop calls next() on the inner
   generator again. *)
BatchProcessingNext(g) ==
    /\ gens[g].kind = "batch_processing"
    /\ gens[g].pc = "calling"
    /\ gens[gens[g].child].pc = "suspended"
    /\ LET c == gens[g].child
           filtered_list == FilterBatch(Last(gens[c].yielded))
       IN  gens' = IF filtered_list # <<>>
                   THEN [gens EXCEPT ![g] =
                            [@ EXCEPT !.yielded = Append(@, filtered_list),
                                      !.pc = "suspended"]]
                   ELSE [gens EXCEPT ![c] = ResumeGen(@)]
    /\ UNCHANGED <<table, conns>>

(* The inner generator is exhausted: the for loop ends and batch_processing
   returns. *)
BatchProcessingReturn(g) ==
    /\ gens[g].kind = "batch_processing"
    /\ gens[g].pc = "calling"
    /\ gens[gens[g].child].pc = "closed"
    /\ gens[gens[g].child].how = "return"
    /\ gens' = [gens EXCEPT ![g] = Ended(@, "return")]
    /\ UNCHANGED <<table, conns>>

(* The inner generator raised: the error passes through batch_processing. *)
BatchProcessingRaise(g) ==
    /\ gens[g].kind = "batch_processing"
    /\ gens[g].pc = "calling"
    /\ gens[gens[g].child].pc = "closed"
    /\ gens[gens[g].child].how = "raise"
    /\ gens' = [gens EXCEPT ![g] = Raised(@, gens[gens[g].child].err)]
    /\ UNCHANGED <<table, conns>>

(* cursor.fetchmany(batch_size) with batch_size <= 0, in a build of the
   driver that takes its arraysize, 1, for such a size; in other builds it
   returns no row (FetchMany) or raises (FetchFail). *)
FetchManyArraysize(g) ==
    /\ gens[g].kind = "stream_users_in_batches"
    /\ gens[g].pc = "fetch"
    /\ gens[g].size <= 0
    /\ LET batch == SubSeq(gens[g].rs, gens[g].pos + 1,
                           Min(gens[g].pos + 1, Len(gens[g].rs)))
       IN  gens' = [gens EXCEPT ![g] =
                       [@ EXCEPT !.pos = @ + Len(batch),
                                 !.fetches = Append(@, Len(batch)),
                                 !.yielded = IF batch = <<>> THEN @
                                             ELSE Append(@, batch),
                                 !.pc = IF batch = <<>> THEN "exhausted"
                                        ELSE "suspended"]]
    /\ UNCHANGED <<table, conns>>

----------------------------------------------------------------------------
(* paginate_users and lazy_paginate *)

(* cursor.fetchall() in paginate_users *)
FetchAll(g) ==
    /\ gens[g].kind \in Paged
    /\ gens[g].pc = "fetch"
    /\ gens' = [gens EXCEPT ![g] =
                   [@ EXCEPT !.page = SubSeq(gens[g].rs, gens[g].pos + 1,
                                             Len(gens[g].rs)),
                             !.pos = Len(gens[g].rs),
                             !.fetches = Append(@, Len(gens[g].rs)
                                                     - gens[g].pos),
                             !.pc = "return"]]
    /\ UNCHANGED <<table, conns>>

(* Mutant of PaginateReturn: paginate_users without the with block, so that
   the page is returned and the connection stays open. *)
PaginateReturnLeaks(g) ==
    /\ gens[g].pc = "return"
    /\ gens' = [gens EXCEPT ![g] =
                   IF gens[g].page = <<>> \/ gens[g].kind = "paginate_users"
                   THEN [@ EXCEPT !.pc = "closed", !.how = "return",
                                  !.conn = 0]
                   ELSE [@ EXCEPT !.conn = 0,
                                  !.yielded = Append(@, gens[g].page),
                                  !.pc = "suspended"]]
    /\ UNCHANGED <<table, conns>>

(* Mutant of PaginateReturn: lazy_paginate breaks on a page shorter than
   page_size instead of on an empty one. *)
PaginateReturnBreaksOnShort(g) ==
    /\ gens[g].pc = "return"
    /\ conns' = ExitBlock(conns, gens[g], "return")
    /\ gens' = [gens EXCEPT ![g] =
                   IF Len(gens[g].page) < gens[g].size
                          \/ gens[g].kind = "paginate_users"
                   THEN Ended(@, "return")
                   ELSE [@ EXCEPT !.conn = 0,
                                  !.yielded = Append(@, gens[g].page),
                                  !.pc = "suspended"]]
    /\ UNCHANGED table

(* Mutant of PaginateReturn: lazy_paginate goes on to the next page without
   waiting for the consumer to ask for it. *)
PaginateReturnEager(g) ==
    /\ gens[g].pc = "return"
    /\ conns' = ExitBlock(conns, gens[g], "return")
    /\ gens' = [gens EXCEPT ![g] =
                   IF gens[g].page = <<>> \/ gens[g].kind = "paginate_users"
                   THEN Ended(@, "return")
                   ELSE [@ EXCEPT !.conn = 0,
                                  !.yielded = Append(@, gens[g].page),
                                  !.offset = NextOffset(gens[g]),
                                  !.pc = "connect"]]
    /\ UNCHANGED table

(* Mutant of PaginateReturn: lazy_paginate without if not page: break, so
   that an empty page is yielded like any other. *)
PaginateReturnNoBreak(g) ==
    /\ gens[g].pc = "return"
    /\ conns' = ExitBlock(conns, gens[g], "return")
    /\ gens' = [gens EXCEPT ![g] =
                   IF gens[g].kind = "paginate_users"
                   THEN Ended(@, "return")
                   ELSE [@ EXCEPT !.conn = 0,
                                  !.yielded = Append(@, gens[g].page),
                                  !.pc = "suspended"]]
    /\ UNCHANGED table

(* paginate_users returns: its with blocks are left and its caller has
   the page; then, in lazy_paginate, if not page: break, else yield
   page. *)
PaginateReturn(g) ==
    /\ gens[g].pc = "return"
    /\ conns' = ExitBlock(conns, gens[g], "return")
    /\ gens' = [gens EXCEPT ![g] =
                   IF gens[g].page = <<>> \/ gens[g].kind = "paginate_users"
                   THEN Ended(@, "return")
                   ELSE [@ EXCEPT !.conn = 0,
                                  !.yielded = Append(@, gens[g].page),
                                  !.pc = "suspended"]]
    /\ UNCHANGED table

----------------------------------------------------------------------------
(* Abandonment *)

(* Mutant of Close: the generator is dropped without GeneratorExit running
   the with blocks' exits. *)
CloseLeaks(g) ==
    /\ gens[g].parent = 0
    /\ gens[g].pc \in {"created", "suspended"}
    /\ gens' = [gens EXCEPT ![g] =
                   [@ EXCEPT !.pc = "closed", !.how = "exit", !.conn = 0]]
    /\ UNCHANGED <<table, conns>>

(* The consumer stops pulling and the generator is closed (close(), or its
   finalizer): GeneratorExit is raised at the yield it is suspended at and
   leaves through the with blocks around that yield. *)
Close(g) ==
    /\ gens[g].parent = 0
    /\ gens[g].pc \in {"created", "suspended"}
    /\ conns' = ExitBlock(conns, gens[g], "exit")
    /\ gens' = [gens EXCEPT ![g] = Ended(@, "exit")]
    /\ UNCHANGED table

(* Mutant of Finalize: the inner generator is dropped with its with
   blocks still entered. *)
FinalizeLeaks(g) ==
    /\ gens[g].parent # 0
    /\ gens[gens[g].parent].pc = "closed"
    /\ gens[g].pc = "suspended"
    /\ gens' = [gens EXCEPT ![g] =
                   [@ EXCEPT !.pc = "closed", !.how = "exit", !.conn = 0]]
    /\ UNCHANGED <<table, conns>>

(* The inner generator of a batch_processing that was closed is finalized
   once nothing refers to it. *)
Finalize(g) ==
    /\ gens[g].parent # 0
    /\ gens[gens[g].parent].pc = "closed"
    /\ gens[g].pc = "suspended"
    /\ conns' = ExitBlock(conns, gens[g], "exit")
    /\ gens' = [gens EXCEPT ![g] = Ended(@, "exit")]
    /\ UNCHANGED table

----------------------------------------------------------------------------

(* One consumer, one producer call. *)
Next ==
    \/ \E g \in DOMAIN gens : Pull(g) /\ UNCHANGED others
    \/ \E g \in DOMAIN gens : Connect(g) /\ UNCHANGED others
    \/ \E g \in DOMAIN gens : ConnectFail(g) /\ UNCHANGED others
    \/ \E g \in DOMAIN gens : Execute(g) /\ UNCHANGED others
    \/ \E g \in DOMAIN gens : ExecuteFail(g) /\ UNCHANGED others
    \/ \E g \in DOMAIN gens : FetchFail(g) /\ UNCHANGED others
    \/ \E g \in DOMAIN gens : FetchRow(g) /\ UNCHANGED others
    \/ \E g \in DOMAIN gens : IntFail(g) /\ UNCHANGED others
    \/ \E g \in DOMAIN gens : Release(g) /\ UNCHANGED others
    \/ \E g \in DOMAIN gens : FetchMany(g) /\ UNCHANGED others
    \/ \E g \in DOMAIN gens : BatchProcessingNext(g) /\ UNCHANGED others
    \/ \E g \in DOMAIN gens : BatchProcessingReturn(g) /\ UNCHANGED others
    \/ \E g \in DOMAIN gens : BatchProcessingRaise(g) /\ UNCHANGED others
    \/ \E g \in DOMAIN gens : FetchAll(g) /\ UNCHANGED others
    \/ \E g \in DOMAIN gens : PaginateReturn(g) /\ UNCHANGED others
    \/ \E g \in DOMAIN gens : Close(g) /\ UNCHANGED others
    \/ \E g \in DOMAIN gens : Finalize(g) /\ UNCHANGED others

Spec == Init /\ [][Next]_vars

----------------------------------------------------------------------------
(* Other clients writing to user_data while lazy_paginate runs *)

InsertAt(t, p, r) == SubSeq(t, 1, p - 1) \o <<r>> \o SubSeq(t, p, Len(t))

DeleteAt(t, p) == SubSeq(t, 1, p - 1) \o SubSeq(t, p + 1, Len(t))

(* The age of the rows the writer inserts. *)
InsertedAges == {26}

(* lazy_paginate is between two page fetches: it has yielded a page and
   waits for the next pull. *)
Paginating ==
    \E g \in DOMAIN gens :
        gens[g].kind = "lazy_paginate" /\ gens[g].pc = "suspended"

(* The tables the writer starts from: the ages play no part in LIMIT and
   OFFSET. *)
WriterTables ==
    {t \in Tables : \A i \in DOMAIN t : PyInt(t[i].age) \in InsertedAges}

(* insert_data, run by another client: INSERT INTO user_data with a fresh
   uuid4 key, which places the row anywhere in the order a SELECT without
   ORDER BY returns.  Inserted rows carry negative user_ids, so that the
   rows of the initial table are the ones with positive user_ids. *)
WriterInsert ==
    /\ Paginating
    /\ writes < MaxWrites
    /\ \E p \in 1..(Len(table) + 1), a \in InsertedAges :
           table' = InsertAt(table, p, Row(-(writes + 1), a))
    /\ writes' = writes + 1
    /\ UNCHANGED <<gens, conns, acc, middleware, outside>>

(* Another client deletes a row of user_data. *)
WriterDelete ==
    /\ Paginating
    /\ writes < MaxWrites
    /\ \E p \in 1..Len(table) : table' = DeleteAt(table, p)
    /\ writes' = writes + 1
    /\ UNCHANGED <<gens, conns, acc, middleware, outside>>

InitWriter ==
    /\ table \in WriterTables
    /\ \E n \in Sizes : gens = <<NewGen("lazy_paginate", n, 0)>>
    /\ conns = <<>>
    /\ writes = 0
    /\ acc = NoAverage
    /\ NoRequests
    /\ Untouched

(* lazy_paginate pulled to its end while other clients write. *)
NextWriter ==
    \/ \E g \in DOMAIN gens : Pull(g) /\ UNCHANGED others
    \/ \E g \in DOMAIN gens : Connect(g) /\ UNCHANGED others
    \/ \E g \in DOMAIN gens : Execute(g) /\ UNCHANGED others
    \/ \E g \in DOMAIN gens : FetchAll(g) /\ UNCHANGED others
    \/ \E g \in DOMAIN gens : PaginateReturn(g) /\ UNCHANGED others
    \/ WriterInsert
    \/ WriterDelete

SpecWriter == InitWriter /\ [][NextWriter]_vars

----------------------------------------------------------------------------
(* paginate_users called on its own *)

(* paginate_users(page_size, offset) has been called and has reached
   mysql.connector.connect. *)
NewCall(size, offset) ==
    [NewGen("paginate_users", size, 0) EXCEPT !.pc = "connect",
                                              !.offset = offset]

InitPage ==
    /\ table \in Tables
    /\ \/ \E n \in Sizes, off \in 0..MaxOffset : gens = <<NewCall(n, off)>>
       \/ \E n \in Sizes : gens = <<NewGen("lazy_paginate", n, 0)>>
    /\ conns = <<>>
    /\ writes = 0
    /\ acc = NoAverage
    /\ NoRequests
    /\ Untouched

(* One call of paginate_users, or lazy_paginate pulled by one consumer. *)
NextPage ==
    \/ \E g \in DOMAIN gens : Pull(g) /\ UNCHANGED others
    \/ \E g \in DOMAIN gens : Connect(g) /\ UNCHANGED others
    \/ \E g \in DOMAIN gens : ConnectFail(g) /\ UNCHANGED others
    \/ \E g \in DOMAIN gens : Execute(g) /\ UNCHANGED others
    \/ \E g \in DOMAIN gens : ExecuteFail(g) /\ UNCHANGED others
    \/ \E g \in DOMAIN gens : FetchFail(g) /\ UNCHANGED others
    \/ \E g \in DOMAIN gens : FetchAll(g) /\ UNCHANGED others
    \/ \E g \in DOMAIN gens : PaginateReturn(g) /\ UNCHANGED others

SpecPage == InitPage /\ [][NextPage]_vars

----------------------------------------------------------------------------
(* calculate_average_age *)

(* calculate_average_age is called: total = 0, count = 0, and the for
   statement creates the stream_user_ages generator.
   acc.pc: idle | next (about to pull) | wait (pull under way) | done |
           raised *)
AvgCall ==
    /\ acc.pc = "idle"
    /\ gens = <<>>
    /\ gens' = <<NewGen("stream_user_ages", 0, 0)>>
    /\ acc' = [pc |-> "next", total |-> 0, count |-> 0, average |-> <<0, 1>>]
    /\ UNCHANGED <<table, conns, writes, middleware, outside>>

(* The for statement calls next() on the generator. *)
AvgNext ==
    /\ acc.pc = "next"
    /\ Pull(1)
    /\ acc' = [acc EXCEPT !.pc = "wait"]
    /\ UNCHANGED <<writes, middleware, outside>>

(* Mutant of AvgBody: the age replaces the total instead of being added to
   it. *)
AvgBodyOverwrites ==
    /\ acc.pc = "wait"
    /\ gens[1].pc = "suspended"
    /\ acc' = [acc EXCEPT !.total = Last(gens[1].yielded),
                          !.count = @ + 1,
                          !.pc = "next"]
    /\ UNCHANGED <<table, gens, conns, writes, middleware, outside>>

(* The generator yielded an age: total += age; count += 1. *)
AvgBody ==
    /\ acc.pc = "wait"
    /\ gens[1].pc = "suspended"
    /\ acc' = [acc EXCEPT !.total = @ + Last(gens[1].yielded),
                          !.count = @ + 1,
                          !.pc = "next"]
    /\ UNCHANGED <<table, gens, conns, writes, middleware, outside>>

(* The generator returned: average = total / count if count > 0 else 0.
   The quotient is kept as the pair <<numerator, denominator>>; 0 is
   <<0, 1>>. *)
AvgDone ==
    /\ acc.pc = "wait"
    /\ gens[1].pc = "closed" /\ gens[1].how = "return"
    /\ acc' = [acc EXCEPT !.average = IF acc.count > 0
                                      THEN <<acc.total, acc.count>>
                                      ELSE <<0, 1>>,
                          !.pc = "done"]
    /\ UNCHANGED <<table, gens, conns, writes, middleware, outside>>

(* The generator raised: the error leaves calculate_average_age. *)
AvgRaise ==
    /\ acc.pc = "wait"
    /\ gens[1].pc = "closed" /\ gens[1].how = "raise"
    /\ acc' = [acc EXCEPT !.pc = "raised"]
    /\ UNCHANGED <<table, gens, conns, writes, middleware, outside>>

InitAvg ==
    /\ table \in Tables
    /\ gens = <<>>
    /\ conns = <<>>
    /\ writes = 0
    /\ acc = NoAverage
    /\ NoRequests
    /\ Untouched

NextAvg ==
    \/ AvgCall
    \/ AvgNext
    \/ \E g \in DOMAIN gens : Connect(g) /\ UNCHANGED others
    \/ \E g \in DOMAIN gens : ConnectFail(g) /\ UNCHANGED others
    \/ \E g \in DOMAIN gens : Execute(g) /\ UNCHANGED others
    \/ \E g \in DOMAIN gens : ExecuteFail(g) /\ UNCHANGED others
    \/ \E g \in DOMAIN gens : FetchFail(g) /\ UNCHANGED others
    \/ \E g \in DOMAIN gens : FetchRow(g) /\ UNCHANGED others
    \/ \E g \in DOMAIN gens : IntFail(g) /\ UNCHANGED others
    \/ \E g \in DOMAIN gens : Release(g) /\ UNCHANGED others
    \/ AvgBody
    \/ AvgDone
    \/ AvgRaise

SpecAvg == InitAvg /\ [][NextAvg]_vars

----------------------------------------------------------------------------
(* Two iterations alive at once *)

(* The calls of the Row Streamer and the Batch Streamer. *)
StreamerCalls ==
    {c \in Calls : c[1] \in {"stream_users", "stream_users_in_batches"}}

(* Two generator objects have been created; neither has been pulled. *)
InitTwo ==
    /\ table \in WriterTables
    /\ \E c \in StreamerCalls, d \in StreamerCalls :
           gens = <<NewGen(c[1], c[2], 0), NewGen(d[1], d[2], 0)>>
    /\ conns = <<>>
    /\ writes = 0
    /\ acc = NoAverage
    /\ NoRequests
    /\ Untouched

(* The two iterations are pulled, exhausted and abandoned in any order. *)
NextTwo ==
    \/ \E g \in DOMAIN gens : Pull(g) /\ UNCHANGED others
    \/ \E g \in DOMAIN gens : Connect(g) /\ UNCHANGED others
    \/ \E g \in DOMAIN gens : Execute(g) /\ UNCHANGED others
    \/ \E g \in DOMAIN gens : FetchRow(g) /\ UNCHANGED others
    \/ \E g \in DOMAIN gens : FetchMany(g) /\ UNCHANGED others
    \/ \E g \in DOMAIN gens : Release(g) /\ UNCHANGED others
    \/ \E g \in DOMAIN gens : Close(g) /\ UNCHANGED others

SpecTwo == InitTwo /\ [][NextTwo]_vars

----------------------------------------------------------------------------
(* Pulling an ended generator, and calling stream_users again *)

(* Mutant of PullClosed: next() on an ended generator starts its body
   again. *)
PullClosedRestarts(g) ==
    /\ gens[g].pc = "closed"
    /\ gens[g].pulls < MaxPulls
    /\ gens' = [gens EXCEPT ![g] = [@ EXCEPT !.pulls = @ + 1,
                                             !.pc = "connect"]]
    /\ UNCHANGED <<table, conns>>

(* next() on a generator that has returned, raised or been closed: its
   frame is gone and StopIteration is raised at once. *)
PullClosed(g) ==
    /\ gens[g].pc = "closed"
    /\ gens[g].pulls < MaxPulls
    /\ gens' = [gens EXCEPT ![g] = [@ EXCEPT !.pulls = @ + 1]]
    /\ UNCHANGED <<table, conns>>

(* stream_users() is called again once the earlier iteration has ended:
   a new generator object. *)
CallAgain ==
    /\ Len(gens) < MaxGens
    /\ \A g \in DOMAIN gens : gens[g].pc = "closed"
    /\ gens' = Append(gens, NewGen("stream_users", 0, 0))
    /\ UNCHANGED <<table, conns>>

InitRestart ==
    /\ table \in WriterTables
    /\ gens = <<NewGen("stream_users", 0, 0)>>
    /\ conns = <<>>
    /\ writes = 0
    /\ acc = NoAverage
    /\ NoRequests
    /\ Untouched

NextRestart ==
    \/ \E g \in DOMAIN gens : Pull(g) /\ UNCHANGED others
    \/ \E g \in DOMAIN gens : Connect(g) /\ UNCHANGED others
    \/ \E g \in DOMAIN gens : Execute(g) /\ UNCHANGED others
    \/ \E g \in DOMAIN gens : FetchRow(g) /\ UNCHANGED others
    \/ \E g \in DOMAIN gens : Release(g) /\ UNCHANGED others
    \/ \E g \in DOMAIN gens : Close(g) /\ UNCHANGED others
    \/ \E g \in DOMAIN gens : PullClosed(g) /\ UNCHANGED others
    \/ CallAgain /\ UNCHANGED others

SpecRestart == InitRestart /\ [][NextRestart]_vars

----------------------------------------------------------------------------
(* OffensiveLanguageMiddleware *)

(* Strings are sequences of one-character strings. *)
UpperCase ==
    <<"A", "B", "C", "D", "E", "F", "G", "H", "I", "J", "K", "L", "M",
      "N", "O", "P", "Q", "R", "S", "T", "U", "V", "W", "X", "Y", "Z">>

LowerCase ==
    <<"a", "b", "c", "d", "e", "f", "g", "h", "i", "j", "k", "l", "m",
      "n", "o", "p", "q", "r", "s", "t", "u", "v", "w", "x", "y", "z">>

(* str.lower() *)
lower(s) ==
    [i \in DOMAIN s |->
        IF \E k \in DOMAIN UpperCase : UpperCase[k] = s[i]
        THEN LowerCase[CHOOSE k \in DOMAIN UpperCase : UpperCase[k] = s[i]]
        ELSE s[i]]

(* keyword in s *)
Contains(s, keyword) ==
    \E i \in 0..(Len(s) - Len(keyword)) :
        SubSeq(s, i + 1, i + Len(keyword)) = keyword

(* s.split(",")[0] *)
SplitFirst(s) ==
    LET commas == {i \in DOMAIN s : s[i] = ","}
    IN  IF commas = {} THEN s
        ELSE SubSeq(s, 1, (CHOOSE i \in commas : \A j \in commas : i <= j) - 1)

(* s.strip() *)
RECURSIVE strip(_)
strip(s) ==
    IF s = <<>> THEN s
    ELSE IF Head(s) = " " THEN strip(Tail(s))
    ELSE IF Last(s) = " " THEN strip(SubSeq(s, 1, Len(s) - 1))
    ELSE s

(* d.get(key, default) *)
Get(d, key, default) == IF key \in DOMAIN d THEN d[key] ELSE default

message_limit == 5

time_window == 60

chat_keywords == {<<"c", "h", "a", "t">>, <<"m", "e", "s", "s", "a", "g", "e">>}

is_chat_message_request(request) ==
    /\ request.method = "POST"
    /\ \E keyword \in chat_keywords : Contains(lower(request.path), keyword)

get_client_ip(request) ==
    LET x_forwarded_for == Get(request.META, "HTTP_X_FORWARDED_FOR", <<>>)
    IN  IF x_forwarded_for # <<>>
        THEN strip(SplitFirst(x_forwarded_for))
        ELSE Get(request.META, "REMOTE_ADDR",
                 <<"u", "n", "k", "n", "o", "w", "n">>)

cleanup_old_requests(history, ip_address, current_time) ==
    IF ip_address \in DOMAIN history
    THEN [history EXCEPT ![ip_address] =
             SelectSeq(@, LAMBDA ts : current_time - ts < time_window)]
    ELSE history

(* Mutant of is_rate_limit_exceeded: > in place of >=. *)
is_rate_limit_exceeded_strict(history, ip_address) ==
    Len(Get(history, ip_address, <<>>)) > message_limit

is_rate_limit_exceeded(history, ip_address) ==
    Len(Get(history, ip_address, <<>>)) >= message_limit

(* self.request_history[client_ip].append(current_time), on a
   defaultdict(list) *)
Record(history, ip_address, current_time) ==
    IF ip_address \in DOMAIN history
    THEN [history EXCEPT ![ip_address] = Append(@, current_time)]
    ELSE history @@ (ip_address :> <<current_time>>)

(* The requests sent to the middleware: a chat POST of client a, a chat
   POST that came through a proxy for client b, a POST to another path and
   a GET of a chat path. *)
Requests ==
    {[method |-> "POST", path |-> <<"/", "c", "h", "a", "t", "s", "/">>,
      META |-> [REMOTE_ADDR |-> <<"a">>]],
     [method |-> "POST", path |-> <<"/", "M", "e", "s", "s", "a", "g", "e">>,
      META |-> [REMOTE_ADDR |-> <<"p">>,
                HTTP_X_FORWARDED_FOR |-> <<" ", "b", " ", ",", "p">>]],
     [method |-> "POST", path |-> <<"/", "u", "s", "e", "r", "s">>,
      META |-> [REMOTE_ADDR |-> <<"a">>]],
     [method |-> "GET", path |-> <<"/", "c", "h", "a", "t", "s", "/">>,
      META |-> [REMOTE_ADDR |-> <<"a">>]]}

(* The seconds that pass between two requests: 30 + 30 reaches the edge of
   the window. *)
Delays == {0, 30}

(* OffensiveLanguageMiddleware.__call__ on a request that arrives elapsed
   seconds after the one before; get_response answers 200. *)
MiddlewareCall(request, elapsed) ==
    /\ handled < MaxRequests
    /\ handled' = handled + 1
    /\ now' = now + elapsed
    /\ IF is_chat_message_request(request)
       THEN LET client_ip == get_client_ip(request)
                cleaned == cleanup_old_requests(request_history, client_ip,
                                                now')
            IN  IF is_rate_limit_exceeded(cleaned, client_ip)
                THEN /\ request_history' = cleaned
                     /\ served' = served
                     /\ response' = [status |-> 429, forwarded |-> FALSE,
                                     chat |-> TRUE, ip |-> client_ip]
                ELSE /\ request_history' = Record(cleaned, client_ip, now')
                     /\ served' = Append(served, [ip |-> client_ip,
                                                  time |-> now'])
                     /\ response' = [status |-> 200, forwarded |-> TRUE,
                                     chat |-> TRUE, ip |-> client_ip]
       ELSE /\ request_history' = request_history
            /\ served' = served
            /\ response' = [status |-> 200, forwarded |-> TRUE,
                            chat |-> FALSE, ip |-> <<>>]
    /\ UNCHANGED <<table, gens, conns, writes, acc, outside>>

InitRate ==
    /\ table = <<>>
    /\ gens = <<>>
    /\ conns = <<>>
    /\ writes = 0
    /\ acc = NoAverage
    /\ NoRequests
    /\ Untouched

(* Requests are handled one at a time. *)
NextRate ==
    \E request \in Requests, elapsed \in Delays :
        MiddlewareCall(request, elapsed)

SpecRate == InitRate /\ [][NextRate]_vars

----------------------------------------------------------------------------
(* The database setting *)

(* The values a database setting is given; the empty string is a value
   too. *)
SettingValues == {"ALX_prodev", "other_db", ""}

(* The environments: each of DB_NAME and DB_DATABASE is set or not. *)
Environments ==
    UNION {[keys -> SettingValues] : keys \in SUBSET {"DB_NAME", "DB_DATABASE"}}

(* The producers that connect themselves. *)
ConnectingCalls ==
    {<<"stream_users", 0>>, <<"stream_users_in_batches", 1>>,
     <<"lazy_paginate", 1>>, <<"stream_user_ages", 0>>}

(* Two producers are created in one process. *)
InitEnv ==
    /\ table \in {t \in WriterTables : Len(t) <= 1}
    /\ \E c \in ConnectingCalls, d \in ConnectingCalls :
           gens = <<NewGen(c[1], c[2], 0), NewGen(d[1], d[2], 0)>>
    /\ conns = <<>>
    /\ writes = 0
    /\ acc = NoAverage
    /\ NoRequests
    /\ env \in Environments
    /\ Idle

NextEnv ==
    \/ \E g \in DOMAIN gens : Pull(g) /\ UNCHANGED others
    \/ \E g \in DOMAIN gens : Connect(g) /\ UNCHANGED others
    \/ \E g \in DOMAIN gens : Execute(g) /\ UNCHANGED others
    \/ \E g \in DOMAIN gens : FetchRow(g) /\ UNCHANGED others
    \/ \E g \in DOMAIN gens : FetchMany(g) /\ UNCHANGED others
    \/ \E g \in DOMAIN gens : FetchAll(g) /\ UNCHANGED others
    \/ \E g \in DOMAIN gens : PaginateReturn(g) /\ UNCHANGED others
    \/ \E g \in DOMAIN gens : Release(g) /\ UNCHANGED others

SpecEnv == InitEnv /\ [][NextEnv]_vars

----------------------------------------------------------------------------
(* lazy_paginate pulled to its end *)

InitPaginate ==
    /\ table \in Tables
    /\ \E n \in Sizes : gens = <<NewGen("lazy_paginate", n, 0)>>
    /\ conns = <<>>
    /\ writes = 0
    /\ acc = NoAverage
    /\ NoRequests
    /\ Untouched

(* for page in lazy_paginate(n): the consumer pulls until StopIteration;
   nothing fails and nobody writes. *)
NextPaginate ==
    \/ \E g \in DOMAIN gens : Pull(g) /\ UNCHANGED others
    \/ \E g \in DOMAIN gens : Connect(g) /\ UNCHANGED others
    \/ \E g \in DOMAIN gens : Execute(g) /\ UNCHANGED others
    \/ \E g \in DOMAIN gens : FetchAll(g) /\ UNCHANGED others
    \/ \E g \in DOMAIN gens : PaginateReturn(g) /\ UNCHANGED others

(* The for loop and the generator body are sequential code: whichever step
   is next is taken. *)
SpecPaginate == InitPaginate /\ [][NextPaginate]_vars /\ WF_vars(NextPaginate)

----------------------------------------------------------------------------
(* lazy_paginate pulled to its end while rows are inserted *)

(* A step of the consumer's for loop or of the generator it pulls. *)
PaginateStep ==
    \/ \E g \in DOMAIN gens : Pull(g) /\ UNCHANGED others
    \/ \E g \in DOMAIN gens : Connect(g) /\ UNCHANGED others
    \/ \E g \in DOMAIN gens : Execute(g) /\ UNCHANGED others
    \/ \E g \in DOMAIN gens : FetchAll(g) /\ UNCHANGED others
    \/ \E g \in DOMAIN gens : PaginateReturn(g) /\ UNCHANGED others

NextInserts ==
    \/ PaginateStep
    \/ WriterInsert

(* The consumer keeps pulling and the generator body is sequential code,
   so the next step of the pagination is taken; the writer inserts when it
   likes, MaxWrites rows at most. *)
SpecInserts == InitWriter /\ [][NextInserts]_vars /\ WF_vars(PaginateStep)

----------------------------------------------------------------------------
(* page_size <= 0 and batch_size <= 0 *)

NonPositiveSizes == (0 - MaxSize)..0

(* lazy_paginate(n) or stream_users_in_batches(n) with n <= 0 on a table
   that has rows. *)
InitNonPositive ==
    /\ table \in {t \in WriterTables : t # <<>>}
    /\ \E k \in {"lazy_paginate", "stream_users_in_batches"},
          n \in NonPositiveSizes : gens = <<NewGen(k, n, 0)>>
    /\ conns = <<>>
    /\ writes = 0
    /\ acc = NoAverage
    /\ NoRequests
    /\ Untouched

NextNonPositive ==
    \/ \E g \in DOMAIN gens : Pull(g) /\ UNCHANGED others
    \/ \E g \in DOMAIN gens : Connect(g) /\ UNCHANGED others
    \/ \E g \in DOMAIN gens : Execute(g) /\ UNCHANGED others
    \/ \E g \in DOMAIN gens : ExecuteFail(g) /\ UNCHANGED others
    \/ \E g \in DOMAIN gens : FetchFail(g) /\ UNCHANGED others
    \/ \E g \in DOMAIN gens : FetchMany(g) /\ UNCHANGED others
    \/ \E g \in DOMAIN gens : FetchManyArraysize(g) /\ UNCHANGED others
    \/ \E g \in DOMAIN gens : Release(g) /\ UNCHANGED others
    \/ \E g \in DOMAIN gens : FetchAll(g) /\ UNCHANGED others
    \/ \E g \in DOMAIN gens : PaginateReturn(g) /\ UNCHANGED others

SpecNonPositive == InitNonPositive /\ [][NextNonPositive]_vars

----------------------------------------------------------------------------
(* batch_processing and the generator inside it *)

InitBatches ==
    /\ table \in Tables
    /\ \E n \in Sizes : gens = <<NewGen("batch_processing", n, 0)>>
    /\ conns = <<>>
    /\ writes = 0
    /\ acc = NoAverage
    /\ NoRequests
    /\ Untouched

(* The inner generator of a closed batch_processing is released. *)
Finalization == \E g \in DOMAIN gens : Finalize(g) /\ UNCHANGED others

NextBatches ==
    \/ \E g \in DOMAIN gens : Pull(g) /\ UNCHANGED others
    \/ \E g \in DOMAIN gens : Connect(g) /\ UNCHANGED others
    \/ \E g \in DOMAIN gens : ConnectFail(g) /\ UNCHANGED others
    \/ \E g \in DOMAIN gens : Execute(g) /\ UNCHANGED others
    \/ \E g \in DOMAIN gens : ExecuteFail(g) /\ UNCHANGED others
    \/ \E g \in DOMAIN gens : FetchFail(g) /\ UNCHANGED others
    \/ \E g \in DOMAIN gens : FetchMany(g) /\ UNCHANGED others
    \/ \E g \in DOMAIN gens : Release(g) /\ UNCHANGED others
    \/ \E g \in DOMAIN gens : BatchProcessingNext(g) /\ UNCHANGED others
    \/ \E g \in DOMAIN gens : BatchProcessingReturn(g) /\ UNCHANGED others
    \/ \E g \in DOMAIN gens : BatchProcessingRaise(g) /\ UNCHANGED others
    \/ \E g \in DOMAIN gens : Close(g) /\ UNCHANGED others
    \/ Finalization

(* The consumer pulls or stops as it likes.  The frame of a closed
   batch_processing held the only reference to the inner generator: when
   the frame is cleared the inner generator is finalized. *)
SpecBatches == InitBatches /\ [][NextBatches]_vars /\ WF_vars(Finalization)

----------------------------------------------------------------------------
(* RestrictAccessByTimeMiddleware *)

(* No generator, consumer or rate limiter is in use. *)
NoProducers ==
    /\ table = <<>>
    /\ gens = <<>>
    /\ conns = <<>>
    /\ writes = 0
    /\ acc = NoAverage
    /\ NoRequests
    /\ env = [key \in {} |-> ""]

(* datetime.time(hour, minute[, second[, microsecond]]) *)
time(hour, minute, second, microsecond) ==
    [hour |-> hour, minute |-> minute, second |-> second,
     microsecond |-> microsecond]

(* datetime.time.__le__ and __ge__: the fields are compared in the order
   hour, minute, second, microsecond. *)
TimeLess(a, b) ==
    \/ a.hour < b.hour
    \/ a.hour = b.hour /\ a.minute < b.minute
    \/ a.hour = b.hour /\ a.minute = b.minute /\ a.second < b.second
    \/ /\ a.hour = b.hour /\ a.minute = b.minute /\ a.second = b.second
       /\ a.microsecond < b.microsecond

TimeLE(a, b) == TimeLess(a, b) \/ a = b

TimeGE(a, b) == TimeLE(b, a)

(* self.start_restriction = datetime.time(21, 0) *)
start_restriction == time(21, 0, 0, 0)

(* self.end_restriction = datetime.time(6, 0) *)
end_restriction == time(6, 0, 0, 0)

(* is_restricted_time(current_time) *)
is_restricted_time(current_time) ==
    TimeGE(current_time, start_restriction)
        \/ TimeLE(current_time, end_restriction)

(* The values datetime.datetime.now().time() takes here. *)
ClockHours == {0, 5, 6, 12, 20, 21, 23}
ClockMinutes == {0, 30, 59}
ClockSeconds == {0, 59}
ClockMicroseconds == {0, 1, 999999}

Times ==
    {time(h, m, sec, us) : h \in ClockHours, m \in ClockMinutes,
                           sec \in ClockSeconds, us \in ClockMicroseconds}

(* RestrictAccessByTimeMiddleware.__call__(request) at current_time. *)
RestrictAccessCall(current_time) ==
    /\ access' = IF is_restricted_time(current_time)
                 THEN [handled |-> TRUE, status |-> 403, forwarded |-> FALSE,
                       time |-> current_time]
                 ELSE [handled |-> TRUE, status |-> 200, forwarded |-> TRUE,
                       time |-> current_time]
    /\ UNCHANGED <<table, gens, conns, writes, acc, middleware, env, threads,
                   conversation, handlers, seed>>

InitHours ==
    /\ NoProducers
    /\ Idle

(* The state outside the messaging app. *)
Beyond ==
    <<table, gens, conns, writes, acc, middleware, env, access, threads,
      seed>>

NextHours == \E current_time \in Times : RestrictAccessCall(current_time)

SpecHours == InitHours /\ [][NextHours]_vars

----------------------------------------------------------------------------
(* OffensiveLanguageMiddleware.__call__ in several threads *)

(* The requests the threads handle: the chat POST of client a and the GET
   of a chat path. *)
ThreadRequests ==
    {r \in Requests : r.META.REMOTE_ADDR = <<"a">> /\ Len(r.path) = 7}

(* The seconds between two arrivals: none, or a whole window. *)
ThreadDelays == {0, time_window}

(* One request more than the limit admits. *)
MaxArrivals == message_limit + 1

(* A thread enters __call__ with a request that arrives elapsed seconds
   after the one before: is_chat_message_request, get_client_ip and
   time.time(); a request that is not a chat POST goes to get_response. *)
ThreadEnter(t, request, elapsed) ==
    /\ threads[t].pc = "idle"
    /\ handled < MaxArrivals
    /\ handled' = handled + 1
    /\ now' = now + elapsed
    /\ IF is_chat_message_request(request)
       THEN /\ threads' = [threads EXCEPT ![t] =
                              [pc |-> "cleanup",
                               ip |-> get_client_ip(request),
                               current_time |-> now', kept |-> <<>>]]
            /\ response' = response
       ELSE /\ threads' = threads
            /\ response' = [status |-> 200, forwarded |-> TRUE,
                            chat |-> FALSE, ip |-> <<>>]
    /\ UNCHANGED <<request_history, served>>

(* cleanup_old_requests: the list comprehension reads the list of the
   IP. *)
ThreadCleanup(t) ==
    /\ threads[t].pc = "cleanup"
    /\ threads' = [threads EXCEPT ![t] =
                      IF threads[t].ip \in DOMAIN request_history
                      THEN [@ EXCEPT !.pc = "assign",
                                     !.kept = cleanup_old_requests(
                                                  request_history,
                                                  threads[t].ip,
                                                  threads[t].current_time)
                                                  [threads[t].ip]]
                      ELSE [@ EXCEPT !.pc = "check"]]
    /\ UNCHANGED <<request_history, now, served, response, handled>>

(* cleanup_old_requests: self.request_history[ip_address] = [...] *)
ThreadAssign(t) ==
    /\ threads[t].pc = "assign"
    /\ request_history' = [request_history EXCEPT ![threads[t].ip] =
                              threads[t].kept]
    /\ threads' = [threads EXCEPT ![t] = [@ EXCEPT !.pc = "check",
                                                   !.kept = <<>>]]
    /\ UNCHANGED <<now, served, response, handled>>

(* if self.is_rate_limit_exceeded(client_ip): return JsonResponse(...,
   status=429) *)
ThreadCheck(t) ==
    /\ threads[t].pc = "check"
    /\ IF is_rate_limit_exceeded(request_history, threads[t].ip)
       THEN /\ threads' = [threads EXCEPT ![t] = IdleThread]
            /\ response' = [status |-> 429, forwarded |-> FALSE,
                            chat |-> TRUE, ip |-> threads[t].ip]
       ELSE /\ threads' = [threads EXCEPT ![t] = [@ EXCEPT !.pc = "append"]]
            /\ response' = response
    /\ UNCHANGED <<request_history, now, served, handled>>

(* self.request_history[client_ip].append(current_time), and the request
   goes to get_response. *)
ThreadAppend(t) ==
    /\ threads[t].pc = "append"
    /\ request_history' = Record(request_history, threads[t].ip,
                                 threads[t].current_time)
    /\ served' = Append(served, [ip |-> threads[t].ip,
                                 time |-> threads[t].current_time])
    /\ response' = [status |-> 200, forwarded |-> TRUE,
                    chat |-> TRUE, ip |-> threads[t].ip]
    /\ threads' = [threads EXCEPT ![t] = IdleThread]
    /\ UNCHANGED <<now, handled>>

Elsewhere ==
    <<table, gens, conns, writes, acc, env, access, conversation, handlers,
      seed>>

InitThreads ==
    /\ NoProducers
    /\ Idle

NextThreads ==
    \/ \E t \in Threads, request \in ThreadRequests, elapsed \in ThreadDelays :
           ThreadEnter(t, request, elapsed) /\ UNCHANGED Elsewhere
    \/ \E t \in Threads : ThreadCleanup(t) /\ UNCHANGED Elsewhere
    \/ \E t \in Threads : ThreadAssign(t) /\ UNCHANGED Elsewhere
    \/ \E t \in Threads : ThreadCheck(t) /\ UNCHANGED Elsewhere
    \/ \E t \in Threads : ThreadAppend(t) /\ UNCHANGED Elsewhere

SpecThreads == InitThreads /\ [][NextThreads]_vars

----------------------------------------------------------------------------
(* ConversationViewSet.remove_participant and leave_conversation *)

(* Conversation.get_participant_count() on the conversation get_object
   loaded: get_queryset prefetches the participants, which count()
   counts. *)
get_participant_count(c) == Cardinality(c.participants)

(* self.get_object() for a request of requester, and what the action
   reads before it decides: get_queryset keeps the active conversations
   the requester participates in, anything else is answered 404. *)
GetObject(w, action, requester, user) ==
    /\ handlers[w].pc = "idle"
    /\ handlers' = [handlers EXCEPT ![w] =
                       IF conversation.is_active
                              /\ requester \in conversation.participants
                       THEN [pc |-> "decide", action |-> action,
                             requester |-> requester, user |-> user,
                             count |-> get_participant_count(conversation),
                             status |-> 0]
                       ELSE IdleHandler(404)]
    /\ UNCHANGED conversation

(* remove_participant after get_object: 400 when the count is <= 1, else
   conversation.remove_participant(user). *)
RemoveParticipant(w) ==
    /\ handlers[w].pc = "decide"
    /\ handlers[w].action = "remove_participant"
    /\ IF handlers[w].count <= 1
       THEN /\ conversation' = conversation
            /\ handlers' = [handlers EXCEPT ![w] = IdleHandler(400)]
       ELSE /\ conversation' =
                   [conversation EXCEPT !.participants =
                                            @ \ {handlers[w].user}]
            /\ handlers' = [handlers EXCEPT ![w] = IdleHandler(200)]

(* leave_conversation after get_object: the conversation is deactivated
   and saved when the count is <= 1, else
   conversation.remove_participant(request.user). *)
LeaveConversation(w) ==
    /\ handlers[w].pc = "decide"
    /\ handlers[w].action = "leave_conversation"
    /\ conversation' =
           IF handlers[w].count <= 1
           THEN [conversation EXCEPT !.is_active = FALSE]
           ELSE [conversation EXCEPT !.participants =
                                         @ \ {handlers[w].requester}]
    /\ handlers' = [handlers EXCEPT ![w] = IdleHandler(200)]

(* An active conversation with one participant or more. *)
InitConversation ==
    /\ NoProducers
    /\ access = NoAccess
    /\ threads = [t \in Threads |-> IdleThread]
    /\ \E ps \in SUBSET Users :
           /\ ps # {}
           /\ conversation = [participants |-> ps, is_active |-> TRUE]
    /\ handlers = [w \in Workers |-> IdleHandler(0)]
    /\ seed = NewSeed(FALSE)

NextConversation ==
    \/ \E w \in Workers, requester \in Users, user \in Users :
           GetObject(w, "remove_participant", requester, user)
               /\ UNCHANGED Beyond
    \/ \E w \in Workers, requester \in Users :
           GetObject(w, "leave_conversation", requester, requester)
               /\ UNCHANGED Beyond
    \/ \E w \in Workers : RemoveParticipant(w) /\ UNCHANGED Beyond
    \/ \E w \in Workers : LeaveConversation(w) /\ UNCHANGED Beyond

SpecConversation == InitConversation /\ [][NextConversation]_vars

----------------------------------------------------------------------------
(* The main script of seed.py *)

(* bool(value): None is false; a connection and a generator object define
   neither __bool__ nor __len__ and are true. *)
Truthy(value) == value.type # "NoneType"

(* connect_db as the main script takes it to be: a function without yield,
   which connects when it is called and returns the connection, or None
   when connecting fails. *)
connect_db_returns(script) ==
    [script EXCEPT !.server_conn = IF script.server_up THEN Connection
                                   ELSE None,
                   !.connects = @ + 1,
                   !.pc = "guard"]

(* server_conn = connect_db(): the body of connect_db holds a yield, so
   connect_db is a generator function; calling it runs none of its body and
   returns a generator object. *)
connect_db(script) ==
    [script EXCEPT !.server_conn = GeneratorObject, !.pc = "guard"]

CallConnectDb ==
    /\ seed.pc = "start"
    /\ seed' = connect_db(seed)

(* if server_conn: *)
Guard ==
    /\ seed.pc = "guard"
    /\ seed' = [seed EXCEPT !.pc = IF Truthy(seed.server_conn)
                                   THEN "create_database"
                                   ELSE "connect_to_prodev"]

(* The body of the if: create_database(server_conn), whose
   connection.cursor() raises AttributeError on a value that is not a
   connection, which nothing catches; then server_conn.close(). *)
CreateDatabase ==
    /\ seed.pc = "create_database"
    /\ seed' = IF seed.server_conn.type = "MySQLConnection"
               THEN [seed EXCEPT !.created = TRUE,
                                 !.server_conn = [@ EXCEPT !.open = FALSE],
                                 !.closed = TRUE,
                                 !.pc = "connect_to_prodev"]
               ELSE [seed EXCEPT !.error = "AttributeError",
                                 !.pc = "crashed"]

(* The settings connect_db names. *)
SeedSettings == {"DB_HOST", "DB_USER", "DB_PASSWORD"}

(* The script is started with each setting set or not, and with the server
   reachable or not. *)
InitSeed ==
    /\ table = <<>>
    /\ gens = <<>>
    /\ conns = <<>>
    /\ writes = 0
    /\ acc = NoAverage
    /\ NoRequests
    /\ env \in UNION {[keys -> {"localhost", "other"}] :
                          keys \in SUBSET SeedSettings}
    /\ access = NoAccess
    /\ threads = [t \in Threads |-> IdleThread]
    /\ NoConversation
    /\ \E server_up \in BOOLEAN : seed = NewSeed(server_up)

Outside ==
    <<table, gens, conns, writes, acc, middleware, env, access, threads,
      conversation, handlers>>

NextSeed ==
    \/ CallConnectDb /\ UNCHANGED Outside
    \/ Guard /\ UNCHANGED Outside
    \/ CreateDatabase /\ UNCHANGED Outside

SpecSeed == InitSeed /\ [][NextSeed]_vars

----------------------------------------------------------------------------
(* Vocabulary of the properties *)

(* The with block that connection c was acquired for has been left. *)
BlockEnded(c) == gens[conns[c].owner].conn # c

ConnsOf(g) == {c \in DOMAIN conns : conns[c].owner = g}

OpenConnsOf(g) == {c \in ConnsOf(g) : conns[c].open}

(* The generator ran to the end of its sequence. *)
Exhausted(g) == gens[g].pc = "closed" /\ gens[g].how = "return"

(* The consumer abandoned the generator. *)
Abandoned(g) == gens[g].pc = "closed" /\ gens[g].how = "exit"

IsPrefix(s, t) == Len(s) <= Len(t) /\ s = SubSeq(t, 1, Len(s))

Front(s) == SubSeq(s, 1, Len(s) - 1)

(* The stored age of a record is greater than n. *)
AgeAbove(r, n) == r.age.unscaled > n * Pow10(r.age.scale)

OlderThan25(r) == AgeAbove(r, 25)

(* The records of a batch older than 25, in the batch's order. *)
Matching(batch) == SelectSeq(batch, OlderThan25)

(* The filtered images of a sequence of batches, the empty ones dropped. *)
RECURSIVE Images(_)
Images(bs) ==
    IF bs = <<>> THEN <<>>
    ELSE (IF Matching(Head(bs)) = <<>> THEN <<>> ELSE <<Matching(Head(bs))>>)
             \o Images(Tail(bs))

AgesOf(batch) == [i \in 1..Len(batch) |-> batch[i].age.unscaled]

NonZero(n) == n # 0

----------------------------------------------------------------------------
(* Properties *)

(* C1: a connection acquired through get_connection is closed exactly once
   when its with block ends, whether the block completes, raises or is
   exited early: it is never closed twice and never open after its block
   has ended. *)
C1_ClosedExactlyOnce ==
    \A c \in DOMAIN conns :
        /\ conns[c].closes <= 1
        /\ conns[c].open <=> conns[c].closes = 0
        /\ BlockEnded(c) => conns[c].closes = 1 /\ ~conns[c].open

(* A block that ended by an exception, its connection closed once. *)
C1_Witness ==
    \E c \in DOMAIN conns :
        /\ BlockEnded(c)
        /\ gens[conns[c].owner].how = "raise"
        /\ conns[c].closes = 1

(* C2: a stream_users iteration that has yielded k >= 1 rows holds exactly
   one connection; it is open while the iteration is suspended between two
   pulls, and released once the iteration is abandoned or exhausted. *)
C2_StreamUsersConnection ==
    \A g \in DOMAIN gens :
        gens[g].kind = "stream_users" =>
            /\ gens[g].pc = "suspended" =>
                   /\ gens[g].conn \in DOMAIN conns
                   /\ conns[gens[g].conn].open
                   /\ ConnsOf(g) = {gens[g].conn}
            /\ Abandoned(g) /\ gens[g].yielded # <<>> =>
                   Cardinality(ConnsOf(g)) = 1 /\ OpenConnsOf(g) = {}
            /\ Exhausted(g) =>
                   Cardinality(ConnsOf(g)) = 1 /\ OpenConnsOf(g) = {}

(* stream_users abandoned after one row of a longer table. *)
C2_Witness ==
    \E g \in DOMAIN gens :
        /\ gens[g].kind = "stream_users"
        /\ Abandoned(g)
        /\ Len(gens[g].yielded) = 1
        /\ Len(table) > 1
        /\ \A c \in ConnsOf(g) : ~conns[c].open /\ conns[c].closes = 1
        /\ ConnsOf(g) # {}

(* C3: stream_users executes SELECT * FROM user_data at most once, yields
   the rows of the table in order without repeating or skipping one, and a
   full iteration has executed the query exactly once and yielded exactly
   the table. *)
C3_StreamUsersRows ==
    \A g \in DOMAIN gens :
        gens[g].kind = "stream_users" =>
            /\ Len(gens[g].queries) <= 1
            /\ \A i \in DOMAIN gens[g].queries :
                   gens[g].queries[i].sql = "SELECT * FROM user_data"
            /\ IsPrefix(gens[g].yielded, table)
            /\ gens[g].pos = Len(gens[g].yielded)
            /\ Exhausted(g) =>
                   Len(gens[g].queries) = 1 /\ gens[g].yielded = table

(* A full iteration over a table of several rows. *)
C3_Witness ==
    \E g \in DOMAIN gens :
        /\ gens[g].kind = "stream_users"
        /\ Exhausted(g)
        /\ Len(table) >= 2
        /\ Len(gens[g].yielded) = Len(table)

(* C4: every batch yielded by stream_users_in_batches has between 1 and
   batch_size rows, only the last yielded batch may be shorter than
   batch_size, the batches concatenate to a prefix of the table, and after
   a full iteration to the table. *)
C4_BatchLengths ==
    \A g \in DOMAIN gens :
        gens[g].kind = "stream_users_in_batches" =>
            /\ \A i \in DOMAIN gens[g].yielded :
                   /\ Len(gens[g].yielded[i]) \in 1..gens[g].size
                   /\ i < Len(gens[g].yielded) =>
                          Len(gens[g].yielded[i]) = gens[g].size
            /\ IsPrefix(Concat(gens[g].yielded), table)
            /\ Exhausted(g) => Concat(gens[g].yielded) = table

(* A full iteration whose last batch is short. *)
C4_Witness ==
    \E g \in DOMAIN gens :
        /\ gens[g].kind = "stream_users_in_batches"
        /\ Exhausted(g)
        /\ Len(gens[g].yielded) >= 2
        /\ Len(Last(gens[g].yielded)) < gens[g].size

(* C5: stream_users_in_batches ends at the first fetch of zero rows and
   nowhere else: every fetch of one or more rows is yielded (a short one
   too), the zero-row fetch is not yielded, it is the last fetch, and a full
   iteration ends with it. *)
C5_EndsAtEmptyFetch ==
    \A g \in DOMAIN gens :
        gens[g].kind = "stream_users_in_batches" =>
            /\ \A i \in DOMAIN gens[g].fetches :
                   gens[g].fetches[i] = 0 =>
                       i = Len(gens[g].fetches)
                           /\ gens[g].pc \in {"exhausted", "closed"}
            /\ Len(gens[g].yielded) = Len(SelectSeq(gens[g].fetches, NonZero))
            /\ \A i \in DOMAIN gens[g].yielded :
                   Len(gens[g].yielded[i]) = gens[g].fetches[i]
            /\ gens[g].pc = "exhausted" \/ Exhausted(g) =>
                   /\ gens[g].fetches # <<>>
                   /\ Last(gens[g].fetches) = 0
                   /\ Len(gens[g].fetches) = Len(gens[g].yielded) + 1

(* A full iteration whose last batch was short and was followed by the
   zero-row fetch. *)
C5_Witness ==
    \E g \in DOMAIN gens :
        /\ gens[g].kind = "stream_users_in_batches"
        /\ Exhausted(g)
        /\ gens[g].size = 2
        /\ gens[g].fetches = <<2, 1, 0>>

(* C6: every record of every batch yielded by batch_processing is older
   than 25, and no yielded batch is empty. *)
C6_FilteredBatches ==
    \A g \in DOMAIN gens :
        gens[g].kind = "batch_processing" =>
            \A i \in DOMAIN gens[g].yielded :
                /\ gens[g].yielded[i] # <<>>
                /\ \A j \in DOMAIN gens[g].yielded[i] :
                       OlderThan25(gens[g].yielded[i][j])

(* batch_processing has yielded from a source batch that also held a record
   of age 25. *)
C6_Witness ==
    \E g \in DOMAIN gens :
        /\ gens[g].kind = "batch_processing"
        /\ gens[g].pc = "suspended"
        /\ \E r \in {Last(gens[gens[g].child].yielded)[j] :
                        j \in DOMAIN Last(gens[gens[g].child].yielded)} :
               r.age.unscaled = 25

(* C7: the batches yielded by batch_processing are, in order, the filtered
   images of the source batches it has consumed, the empty ones dropped:
   each is the sub-list of the records older than 25 of one source batch,
   in that batch's order; after a full iteration no matching record of the
   table is missing, and for ages 20, 26, 30, 18, 40 and batch_size 2 the
   output is [26], [30], [40]. *)
C7_FilteredImages ==
    \A g \in DOMAIN gens :
        gens[g].kind = "batch_processing" /\ gens[g].child # 0 =>
            LET src == gens[gens[g].child].yielded
                pending == gens[g].pc = "calling"
                               /\ gens[gens[g].child].pc = "suspended"
            IN  /\ gens[g].yielded =
                       Images(IF pending THEN Front(src) ELSE src)
                /\ Exhausted(g) =>
                       /\ Concat(src) = table
                       /\ Concat(gens[g].yielded) = Matching(table)
                       /\ (AgesOf(table) = ScenarioAges /\ gens[g].size = 2) =>
                              /\ Len(gens[g].yielded) = 3
                              /\ AgesOf(gens[g].yielded[1]) = <<26>>
                              /\ AgesOf(gens[g].yielded[2]) = <<30>>
                              /\ AgesOf(gens[g].yielded[3]) = <<40>>

(* The scenario run to its end: three filtered batches from three source
   batches. *)
C7_Witness ==
    \E g \in DOMAIN gens :
        /\ gens[g].kind = "batch_processing"
        /\ Exhausted(g)
        /\ gens[g].size = 2
        /\ AgesOf(table) = ScenarioAges
        /\ Len(gens[gens[g].child].yielded) = 3
        /\ Len(gens[g].yielded) = 3

(* C8: the pages yielded by lazy_paginate concatenate to a prefix of the
   table, in the table's order and so without a repeated row, and after a
   full iteration to the whole table. *)
C8_PagesReproduceTable ==
    \A g \in DOMAIN gens :
        gens[g].kind = "lazy_paginate" =>
            /\ IsPrefix(Concat(gens[g].yielded), table)
            /\ Exhausted(g) => Concat(gens[g].yielded) = table

(* A full pagination of several pages. *)
C8_Witness ==
    \E g \in DOMAIN gens :
        /\ gens[g].kind = "lazy_paginate"
        /\ Exhausted(g)
        /\ Len(gens[g].yielded) >= 2
        /\ gens[g].size >= 2

(* C9: the i-th query of lazy_paginate (i = 0, 1, ...) asks for page_size
   rows at offset i * page_size; a further query is issued only after the
   page of the one before was yielded, so no offset is asked for twice or
   skipped. *)
C9_OffsetsInOrder ==
    \A g \in DOMAIN gens :
        gens[g].kind = "lazy_paginate" =>
            /\ \A i \in DOMAIN gens[g].queries :
                   /\ gens[g].queries[i].offset = (i - 1) * gens[g].size
                   /\ gens[g].queries[i].limit = gens[g].size
            /\ Len(gens[g].queries) <= Len(gens[g].yielded) + 1
            /\ gens[g].pc = "suspended" =>
                   /\ Len(gens[g].queries) = Len(gens[g].yielded)
                   /\ gens[g].offset = (Len(gens[g].yielded) - 1) * gens[g].size
            /\ gens[g].pc \in {"connect", "execute"} =>
                   gens[g].offset = Len(gens[g].queries) * gens[g].size

(* The third query of a pagination. *)
C9_Witness ==
    \E g \in DOMAIN gens :
        /\ gens[g].kind = "lazy_paginate"
        /\ Len(gens[g].queries) = 3
        /\ gens[g].queries[3].offset = 2 * gens[g].size
        /\ gens[g].size >= 2

(* C10: every paginate_users call uses a connection of its own and has
   released it when the page is returned: lazy_paginate holds no open
   connection while it is suspended at its yield, before it starts and once
   it has ended or was abandoned, and never more than one. *)
C10_NoConnectionAcrossPages ==
    \A g \in DOMAIN gens :
        gens[g].kind = "lazy_paginate" =>
            /\ Cardinality(OpenConnsOf(g)) <= 1
            /\ gens[g].pc \in {"created", "suspended", "closed"} =>
                   OpenConnsOf(g) = {}
            /\ gens[g].pc = "suspended" \/ Exhausted(g) \/ Abandoned(g) =>
                   Cardinality(ConnsOf(g)) = Len(gens[g].queries)

(* lazy_paginate suspended after its second page, both connections
   released. *)
C10_Witness ==
    \E g \in DOMAIN gens :
        /\ gens[g].kind = "lazy_paginate"
        /\ gens[g].pc = "suspended"
        /\ Len(gens[g].yielded) = 2
        /\ Cardinality(ConnsOf(g)) = 2
        /\ OpenConnsOf(g) = {}

(* The rows of t at positions off .. min(off + n, Len(t)) - 1, counted
   from 0. *)
Window(t, n, off) ==
    [i \in 1..(IF Len(t) - off < 0 THEN 0 ELSE Min(n, Len(t) - off))
        |-> t[off + i]]

(* The places <<page, index>> of the pages g has yielded. *)
Places(g) ==
    {<<i, j>> : i \in DOMAIN gens[g].yielded, j \in 1..(MaxRows + MaxWrites + 2)}
        \cap {pl \in (DOMAIN gens[g].yielded) \X (1..(MaxRows + MaxWrites + 2)) :
                 pl[2] <= Len(gens[g].yielded[pl[1]])}

(* A row of the initial table that is still in the table, and so was in it
   all along, is in no page g has yielded. *)
SkippedRow(g) ==
    \E i \in DOMAIN table :
        /\ table[i].user_id > 0
        /\ \A pl \in Places(g) :
               gens[g].yielded[pl[1]][pl[2]].user_id # table[i].user_id

(* One row is at two places of the pages g has yielded. *)
DuplicatedRow(g) ==
    \E pl \in Places(g), pm \in Places(g) :
        /\ pl # pm
        /\ gens[g].yielded[pl[1]][pl[2]].user_id
               = gens[g].yielded[pm[1]][pm[2]].user_id

(* C11: no snapshot spans the pagination: every page query of
   lazy_paginate reads user_data as it is when the query is executed, and
   the page it yields is that result; so with inserts or deletes between
   two page fetches a full pagination can leave out a row that was in the
   table all along and can yield a row twice, and it does so only when a
   write was made. *)
C11_PagesReadLiveTable ==
    /\ [][\A g \in DOMAIN gens :
              gens[g].kind = "lazy_paginate" =>
                  /\ gens[g].pc = "execute" /\ gens'[g].pc = "fetch" =>
                         gens'[g].rs = Window(table, gens[g].size,
                                              gens[g].offset)
                  /\ gens[g].pc = "return" /\ gens'[g].pc = "suspended" =>
                         /\ gens'[g].yielded = Append(gens[g].yielded,
                                                      gens[g].rs)
                         /\ gens'[g].offset = gens[g].offset]_vars
    /\ [](\A g \in DOMAIN gens :
              Exhausted(g) /\ (SkippedRow(g) \/ DuplicatedRow(g)) =>
                  writes > 0)

(* A full pagination that left out a row present all along and yielded
   another row twice. *)
C11_Witness ==
    \E g \in DOMAIN gens :
        /\ gens[g].kind = "lazy_paginate"
        /\ Exhausted(g)
        /\ SkippedRow(g)
        /\ DuplicatedRow(g)

(* C12: paginate_users(page_size, offset) returns the rows at positions
   offset .. min(offset + page_size, N) - 1 of the N-row table, in order;
   the page is empty exactly when offset >= N; on the 5-row table
   paginate_users(2, 4) returns the 5th row alone and paginate_users(2, 6)
   returns the empty page; and lazy_paginate ends exactly at the first
   query whose page is empty. *)
C12_PaginateUsersPage ==
    \A g \in DOMAIN gens :
        /\ gens[g].kind = "paginate_users" /\ gens[g].pc = "closed"
               /\ gens[g].how = "return" =>
               /\ gens[g].page = Window(table, gens[g].size, gens[g].offset)
               /\ gens[g].page = <<>> <=> gens[g].offset >= Len(table)
               /\ gens[g].yielded = <<>>
               /\ table = MkTable(ScenarioAges) /\ gens[g].size = 2 =>
                      /\ gens[g].offset = 4 => gens[g].page = <<table[5]>>
                      /\ gens[g].offset = 6 => gens[g].page = <<>>
        /\ gens[g].kind = "lazy_paginate" =>
               /\ Exhausted(g) =>
                      /\ gens[g].page = <<>>
                      /\ gens[g].offset >= Len(table)
                      /\ gens[g].offset - gens[g].size < Len(table)
                             \/ gens[g].offset = 0
               /\ gens[g].pc = "suspended" =>
                      /\ Last(gens[g].yielded) # <<>>
                      /\ gens[g].offset < Len(table)

(* paginate_users(2, 4) has returned the 5th row of the 5-row table. *)
C12_Witness ==
    \E g \in DOMAIN gens :
        /\ gens[g].kind = "paginate_users"
        /\ gens[g].pc = "closed" /\ gens[g].how = "return"
        /\ Len(table) = 5 /\ gens[g].size = 2 /\ gens[g].offset = 4
        /\ gens[g].page = <<table[5]>>

(* v1 + ... + vk for the integer ages of the first k rows of t. *)
RECURSIVE SumAges(_, _)
SumAges(t, k) ==
    IF k = 0 THEN 0 ELSE SumAges(t, k - 1) + t[k].age.unscaled

(* C13: calculate_average_age accumulates one row at a time: after k rows
   total is the sum of the first k ages and count is k; at the end
   total = sum(vi), count = N and the average is sum(vi)/N; for N = 0 the
   average is 0 and nothing is divided by zero. *)
C13_AverageAge ==
    /\ acc.pc \in {"next", "wait", "raised"} =>
           /\ acc.count <= Len(table)
           /\ acc.total = SumAges(table, acc.count)
           /\ acc.pc = "next" => acc.count = Len(gens[1].yielded)
    /\ acc.pc = "done" =>
           /\ acc.count = Len(table)
           /\ acc.total = SumAges(table, Len(table))
           /\ acc.average[2] # 0
           /\ acc.average[1] * Len(table)
                  = SumAges(table, Len(table)) * acc.average[2]
           /\ Len(table) = 0 => acc.average = <<0, 1>>

(* The average of three rows has been computed and is not a whole
   number. *)
C13_Witness ==
    /\ acc.pc = "done"
    /\ acc.count = 3
    /\ acc.average[2] = 3
    /\ acc.average[1] % 3 # 0

(* The Row Streamer, the Batch Streamer (also the one batch_processing
   runs) and the Offset Paginator. *)
Iterations ==
    {g \in DOMAIN gens :
        gens[g].kind \in {"stream_users", "stream_users_in_batches",
                          "lazy_paginate"}}

(* The state of an iteration in the four-state machine: UNSTARTED until a
   connection attempt was made, EXHAUSTED once the cursor has returned
   empty, CLOSED once the generator has ended, ACTIVE otherwise. *)
Phase(gen) ==
    CASE gen.pc = "closed" -> "CLOSED"
      [] gen.pc = "exhausted" \/ (gen.pc = "return" /\ gen.page = <<>>) ->
            "EXHAUSTED"
      [] gen.pc \in {"created", "connect"} /\ gen.connects = 0 -> "UNSTARTED"
      [] OTHER -> "ACTIVE"

(* As Phase, with the state of the Offset Paginator between two pages:
   BETWEEN, started and holding no connection. *)
PagedPhase(gen) ==
    IF Phase(gen) = "ACTIVE" /\ gen.conn = 0 THEN "BETWEEN" ELSE Phase(gen)

(* The connection of iteration g is open in the next state. *)
HoldsOpen(g) ==
    /\ gens'[g].conn \in DOMAIN conns'
    /\ conns'[gens'[g].conn].open

(* No connection of iteration g is open in the next state. *)
HoldsNone(g) ==
    \A c \in DOMAIN conns' : conns'[c].owner = g => ~conns'[c].open

(* The statement of C14 as it stands: only UNSTARTED -> ACTIVE ->
   EXHAUSTED -> CLOSED and ACTIVE -> CLOSED on abandonment, for the three
   producers alike; ACTIVE has the connection open, CLOSED is terminal and
   has it released, nothing is yielded in EXHAUSTED or CLOSED. *)
C14_Original ==
    [][\A g \in Iterations :
           LET p == Phase(gens[g])
               q == Phase(gens'[g])
           IN  /\ \/ p = q
                  \/ <<p, q>> \in {<<"UNSTARTED", "ACTIVE">>,
                                   <<"ACTIVE", "EXHAUSTED">>,
                                   <<"EXHAUSTED", "CLOSED">>}
                  \/ <<p, q>> = <<"ACTIVE", "CLOSED">>
                         /\ gens'[g].how = "exit"
               /\ p = "CLOSED" => gens'[g] = gens[g]
               /\ p \in {"EXHAUSTED", "CLOSED"} =>
                      gens'[g].yielded = gens[g].yielded
               /\ q = "ACTIVE" => HoldsOpen(g)
               /\ q = "CLOSED" => HoldsNone(g)]_vars

(* C14: an iteration of the Row Streamer or the Batch Streamer moves only
   along UNSTARTED -> ACTIVE (connection open) -> EXHAUSTED (cursor
   returned empty) -> CLOSED, or ACTIVE -> CLOSED directly on abandonment
   or on a failure, or UNSTARTED -> CLOSED when it is closed before its
   first pull or when acquiring the connection fails.  The Offset
   Paginator is ACTIVE only while it fetches one page: with a page in hand
   it releases the connection and yields the page (ACTIVE -> BETWEEN),
   a pull connects again (BETWEEN -> ACTIVE), and abandonment or a failed
   connect ends it (BETWEEN -> CLOSED).  CLOSED is terminal, nothing is
   yielded in EXHAUSTED or CLOSED, a connection is open in ACTIVE and
   EXHAUSTED only, and in CLOSED every connection of the iteration has
   been released. *)
C14_Phases ==
    [][\A g \in Iterations :
           LET p == PagedPhase(gens[g])
               q == PagedPhase(gens'[g])
               paged == gens[g].kind = "lazy_paginate"
           IN  /\ \/ p = q
                  \/ <<p, q>> \in {<<"UNSTARTED", "ACTIVE">>,
                                   <<"ACTIVE", "EXHAUSTED">>}
                  \/ <<p, q>> = <<"EXHAUSTED", "CLOSED">>
                         /\ gens'[g].how = "return"
                  \/ <<p, q>> \in {<<"ACTIVE", "CLOSED">>,
                                   <<"UNSTARTED", "CLOSED">>}
                         /\ gens'[g].how \in {"exit", "raise"}
                  \/ <<p, q>> = <<"ACTIVE", "BETWEEN">>
                         /\ paged
                         /\ gens[g].page # <<>>
                         /\ gens'[g].yielded
                                = Append(gens[g].yielded, gens[g].page)
                  \/ <<p, q>> = <<"BETWEEN", "ACTIVE">> /\ paged
                  \/ <<p, q>> = <<"BETWEEN", "CLOSED">>
                         /\ paged
                         /\ gens'[g].how \in {"exit", "raise"}
               /\ p = "CLOSED" => gens'[g] = gens[g]
               /\ p \in {"EXHAUSTED", "CLOSED"} =>
                      gens'[g].yielded = gens[g].yielded
               /\ q \in {"ACTIVE", "EXHAUSTED"} => HoldsOpen(g)
               /\ q \in {"UNSTARTED", "BETWEEN", "CLOSED"} => HoldsNone(g)
               /\ ~paged => q # "BETWEEN"]_vars

(* The Offset Paginator is between its second and its third page, with
   both connections released. *)
C14_Witness ==
    \E g \in Iterations :
        /\ gens[g].kind = "lazy_paginate"
        /\ PagedPhase(gens[g]) = "BETWEEN"
        /\ Len(gens[g].yielded) = 2
        /\ Cardinality(ConnsOf(g)) = 2
        /\ OpenConnsOf(g) = {}

(* The generator whose body calls mysql.connector.connect for g: g itself,
   or the inner generator of batch_processing. *)
Connector(g) == IF gens[g].kind = "batch_processing" THEN gens[g].child ELSE g

(* C15: a failing mysql.connector.connect is not swallowed: the generator
   that made the attempt, and batch_processing around it, end by raising
   on the pull that made the attempt, the first pull of the streamers;
   the failing attempt is the only one of that pull, nothing is
   yielded by that pull, no query is executed for it and no connection is
   left open. *)
C15_ConnectFailurePropagates ==
    \A g \in DOMAIN gens :
        /\ gens[g].connects > Cardinality(ConnsOf(g)) =>
               /\ gens[g].err = "connect"
               /\ gens[g].pc = "closed" /\ gens[g].how = "raise"
        /\ gens[g].err = "connect" =>
               LET c == Connector(g)
               IN  /\ gens[g].pc = "closed" /\ gens[g].how = "raise"
                   /\ OpenConnsOf(g) = {} /\ OpenConnsOf(c) = {}
                   /\ gens[c].err = "connect"
                   /\ gens[c].connects = Cardinality(ConnsOf(c)) + 1
                   /\ gens[c].connects = gens[c].pulls
                   /\ Len(gens[c].queries) = Cardinality(ConnsOf(c))
                   /\ gens[g].kind # "lazy_paginate" =>
                          /\ gens[g].pulls = 1
                          /\ gens[c].connects = 1
                          /\ gens[g].yielded = <<>> /\ gens[c].yielded = <<>>
                          /\ ConnsOf(c) = {}
                   /\ gens[g].kind = "lazy_paginate" =>
                          Len(gens[g].yielded) = gens[g].pulls - 1

(* The connection error of the inner stream_users_in_batches has reached
   the caller of batch_processing on its first pull. *)
C15_Witness ==
    \E g \in DOMAIN gens :
        /\ gens[g].kind = "batch_processing"
        /\ gens[g].parent = 0
        /\ gens[g].err = "connect"
        /\ gens[g].how = "raise"
        /\ gens[g].pulls = 1

(* The connections of cs that generator g acquired. *)
Owned(cs, g) == {c \in DOMAIN cs : cs[c].owner = g}

(* C16: a failure of cursor.execute, of reading the cursor or of
   int(row["age"]) after the connection was acquired is not recovered
   from: the generator, and batch_processing around it, end by raising;
   every connection acquired has been closed, once; no further connect is
   made; and the ended generator never changes again, so it yields nothing
   further.  Conversely a generator that ended without raising had no
   failing execute, fetch or int(). *)
C16_FailureAfterAcquire ==
    [][\A g \in DOMAIN gens' :
           LET gen == gens'[g]
               c == IF gen.kind = "batch_processing" THEN gen.child ELSE g
           IN  /\ gen.err \in {"execute", "fetch", "int"} =>
                      /\ gen.pc = "closed" /\ gen.how = "raise"
                      /\ gens'[c].err = gen.err
                      /\ Owned(conns', c) # {}
                      /\ \A k \in Owned(conns', c) :
                             ~conns'[k].open /\ conns'[k].closes = 1
                      /\ gens'[c].connects = Cardinality(Owned(conns', c))
               /\ gen.pc = "closed"
                      /\ Cardinality(Owned(conns', g)) > Len(gen.queries) =>
                      gen.err = "execute" /\ gen.how = "raise"
               /\ gen.pc = "closed" /\ gen.how = "return"
                      /\ gen.kind # "batch_processing" =>
                      gen.fetches # <<>> /\ Last(gen.fetches) = 0
               /\ gen.kind = "stream_user_ages"
                      /\ gen.pos > Len(gen.yielded) =>
                      gen.err = "int" /\ gen.how = "raise"
               /\ g \in DOMAIN gens
                      /\ gens[g].err \in {"execute", "fetch", "int"} =>
                      gens'[g] = gens[g]]_vars

(* int() failed on the second age: one age was yielded, the connection is
   closed and stream_user_ages has ended by raising. *)
C16_Witness ==
    \E g \in DOMAIN gens :
        /\ gens[g].kind = "stream_user_ages"
        /\ gens[g].err = "int"
        /\ gens[g].how = "raise"
        /\ Len(gens[g].yielded) = 1
        /\ gens[g].pos = 2
        /\ OpenConnsOf(g) = {}
        /\ ConnsOf(g) # {}

(* C19: nothing is fetched ahead of the consumer's request: before the
   first pull no connection, query or fetch is made; stream_users has
   taken at most as many rows from the cursor as it was pulled;
   stream_users_in_batches has called fetchmany at most as many times as
   it was pulled; lazy_paginate has run at most one page query per pull,
   the j-th at offset (j - 1) * page_size and only after page j - 1 was
   yielded and the consumer pulled again. *)
C19_FetchOnDemand ==
    \A g \in DOMAIN gens :
        /\ gens[g].pulls = 0 =>
               /\ gens[g].connects = 0 /\ ConnsOf(g) = {}
               /\ gens[g].queries = <<>> /\ gens[g].fetches = <<>>
        /\ gens[g].kind \in {"stream_users", "stream_user_ages"} =>
               /\ gens[g].pos <= gens[g].pulls
               /\ Len(gens[g].fetches) <= gens[g].pulls
               /\ Len(gens[g].queries) <= 1
        /\ gens[g].kind = "stream_users_in_batches" =>
               /\ Len(gens[g].fetches) <= gens[g].pulls
               /\ gens[g].pos <= gens[g].pulls * gens[g].size
               /\ Len(gens[g].queries) <= 1
        /\ gens[g].kind = "lazy_paginate" =>
               /\ Len(gens[g].queries) <= gens[g].pulls
               /\ Len(gens[g].queries) <= Len(gens[g].yielded) + 1
               /\ gens[g].pulls <= Len(gens[g].yielded) + 1
               /\ \A j \in DOMAIN gens[g].queries :
                      gens[g].queries[j].offset = (j - 1) * gens[g].size

(* lazy_paginate was pulled twice and has queried two pages; the table has
   rows beyond them that no query has asked for. *)
C19_Witness ==
    \E g \in DOMAIN gens :
        /\ gens[g].kind = "lazy_paginate"
        /\ gens[g].pc = "suspended"
        /\ gens[g].pulls = 2
        /\ Len(gens[g].queries) = 2
        /\ Len(table) > 2 * gens[g].size

(* The iterations that hold a connection: started and not yet closed. *)
Holding == {g \in DOMAIN gens : gens[g].conn # 0}

(* The rows iteration g has yielded, in order. *)
RowsYielded(g) ==
    IF gens[g].kind = "stream_users_in_batches"
    THEN Concat(gens[g].yielded) ELSE gens[g].yielded

(* C17: with two Row/Batch Streamer iterations alive and their steps
   interleaved in any order, each iteration that has started and is not
   closed holds a connection of its own, with its own cursor position;
   the open connections are as many as those iterations; a step of one
   iteration, exhausting or abandoning it included, leaves the other
   iteration, its connection and its cursor untouched; and each yields
   the rows of the table in order, all of them when it is exhausted. *)
C17_ExclusiveOwnership ==
    /\ [](/\ \A g \in Holding :
                /\ gens[g].conn \in DOMAIN conns
                /\ conns[gens[g].conn].owner = g
                /\ conns[gens[g].conn].open
                /\ \A h \in Holding : h # g => gens[h].conn # gens[g].conn
          /\ Cardinality({c \in DOMAIN conns : conns[c].open})
                 = Cardinality(Holding)
          /\ \A g \in DOMAIN gens :
                /\ gens[g].pc \in {"execute", "fetch", "suspended",
                                   "exhausted"} <=> g \in Holding
                /\ Cardinality(ConnsOf(g)) <= 1
                /\ IsPrefix(RowsYielded(g), table)
                /\ Exhausted(g) => RowsYielded(g) = table)
    /\ [][\A g \in DOMAIN gens :
              gens'[g] # gens[g] =>
                  \A h \in DOMAIN gens \ {g} :
                      /\ gens'[h] = gens[h]
                      /\ \A c \in ConnsOf(h) :
                             c \in DOMAIN conns' /\ conns'[c] = conns[c]]_vars

(* One iteration has been exhausted and another abandoned while the other
   still held its connection, and each yielded its rows. *)
C17_Witness ==
    \E g \in DOMAIN gens, h \in DOMAIN gens :
        /\ g # h
        /\ Exhausted(g) /\ RowsYielded(g) = table /\ Len(table) >= 2
        /\ gens[h].pc = "suspended" /\ Len(RowsYielded(h)) = 1
        /\ gens[h].pulls = 1 /\ gens[g].pulls > 1
        /\ OpenConnsOf(h) # {} /\ OpenConnsOf(g) = {}
        /\ ConnsOf(g) # {}

(* C18: once an iteration of stream_users() is exhausted or closed, a
   further pull changes nothing of it but the count of pulls: it yields
   no record, executes no query and acquires no connection, and its
   connection stays closed; a fresh call is a new iteration that, to
   yield, acquires a connection of its own and executes the query again,
   and yields the rows from the first one on. *)
C18_NotRestartable ==
    /\ [][\A g \in DOMAIN gens :
              gens[g].pc = "closed" =>
                  /\ gens'[g] = [gens[g] EXCEPT !.pulls = gens'[g].pulls]
                  /\ Owned(conns', g) = Owned(conns, g)
                  /\ \A c \in Owned(conns, g) : conns'[c] = conns[c]]_vars
    /\ [](\A g \in DOMAIN gens :
              /\ Cardinality(ConnsOf(g)) <= 1
              /\ gens[g].connects = Cardinality(ConnsOf(g))
              /\ Len(gens[g].queries) <= 1
              /\ IsPrefix(gens[g].yielded, table)
              /\ gens[g].yielded # <<>> =>
                     /\ Cardinality(ConnsOf(g)) = 1
                     /\ Len(gens[g].queries) = 1
              /\ gens[g].pc = "closed" => OpenConnsOf(g) = {})

(* The first iteration was exhausted and pulled again to no effect; the
   second call has its own connection and query and yields the first
   row again. *)
C18_Witness ==
    /\ Len(gens) = 2
    /\ Len(table) >= 2
    /\ Exhausted(1)
    /\ gens[1].yielded = table
    /\ gens[1].pulls > Len(table) + 1
    /\ gens[2].yielded = <<table[1]>>
    /\ Len(gens[2].queries) = 1
    /\ Len(conns) = 2
    /\ conns[2].owner = 2 /\ conns[2].open /\ ~conns[1].open

(* The chat requests of ip passed to get_response at a time t with
   from <= t < from + 60. *)
ServedIn(ip, from) ==
    {i \in DOMAIN served :
        /\ served[i].ip = ip
        /\ from <= served[i].time
        /\ served[i].time < from + 60}

(* C20: with requests handled one at a time, in any 60 seconds (from a
   time on and less than 60 seconds later; a window holding the most
   requests starts at one of them) at most 5 chat POSTs of one client IP
   are passed to get_response; a chat POST that arrives when 5 of its IP
   were passed on in the 60 seconds up to it is answered 429 and not
   passed on, and is the only kind of request answered 429; a chat POST
   of an IP with fewer than 5 and every request that is not a chat POST
   is passed on. *)
C20_RateLimit ==
    /\ [](\A i \in DOMAIN served :
              Cardinality(ServedIn(served[i].ip, served[i].time)) <= 5)
    /\ [][LET recent == {i \in DOMAIN served :
                            /\ served[i].ip = response'.ip
                            /\ now' - served[i].time < 60}
          IN  /\ handled' = handled + 1
              /\ response'.chat =>
                     /\ Cardinality(recent) >= 5 <=> response'.status = 429
                     /\ response'.status = 429 =>
                            ~response'.forwarded /\ served' = served
                     /\ response'.status # 429 =>
                            /\ response'.forwarded
                            /\ served' = Append(served,
                                                [ip |-> response'.ip,
                                                 time |-> now'])
              /\ ~response'.chat =>
                     /\ response'.forwarded
                     /\ response'.status # 429
                     /\ served' = served
                     /\ request_history' = request_history]_vars

(* The sixth chat POST of client b within a minute was answered 429 after
   five were passed on, while a chat POST of client a was passed on. *)
C20_Witness ==
    /\ response.status = 429
    /\ ~response.forwarded
    /\ response.ip = <<"b">>
    /\ Cardinality({i \in DOMAIN served : served[i].ip = <<"b">>}) = 5
    /\ \E i \in DOMAIN served : served[i].ip = <<"a">>

(* stream_users and stream_users_in_batches on one side, paginate_users
   (under lazy_paginate) and stream_user_ages on the other. *)
NameGroup == {"stream_users", "stream_users_in_batches"}

(* Connections c and d were made by producers of the two groups. *)
AcrossGroups(c, d) ==
    /\ gens[conns[c].owner].kind \in NameGroup
    /\ gens[conns[d].owner].kind \notin NameGroup

IsSet(key) == key \in DOMAIN env

(* The statement of C21 as it stands: the two groups use one database
   only when both settings are unset or both are set to the same value. *)
C21_Original ==
    \A c \in DOMAIN conns, d \in DOMAIN conns :
        AcrossGroups(c, d) =>
            (conns[c].database = conns[d].database
                 <=> \/ ~IsSet("DB_NAME") /\ ~IsSet("DB_DATABASE")
                     \/ /\ IsSet("DB_NAME") /\ IsSet("DB_DATABASE")
                        /\ env["DB_NAME"] = env["DB_DATABASE"])

(* C21: stream_users and stream_users_in_batches connect to the value of
   DB_NAME, paginate_users and stream_user_ages to the value of
   DB_DATABASE, each to ALX_prodev when its setting is unset; with one
   setting set to X # ALX_prodev and the other unset the two groups
   connect to different databases; they use the same one exactly when
   both are unset, both are set to the same value, or one is unset and
   the other is set to ALX_prodev. *)
C21_DatabaseSettings ==
    /\ \A c \in DOMAIN conns :
           conns[c].database =
               IF gens[conns[c].owner].kind \in NameGroup
               THEN (IF IsSet("DB_NAME") THEN env["DB_NAME"]
                     ELSE "ALX_prodev")
               ELSE (IF IsSet("DB_DATABASE") THEN env["DB_DATABASE"]
                     ELSE "ALX_prodev")
    /\ \A c \in DOMAIN conns, d \in DOMAIN conns :
           AcrossGroups(c, d) =>
               /\ IsSet("DB_NAME") /\ ~IsSet("DB_DATABASE")
                      /\ env["DB_NAME"] # "ALX_prodev" =>
                      conns[c].database # conns[d].database
               /\ ~IsSet("DB_NAME") /\ IsSet("DB_DATABASE")
                      /\ env["DB_DATABASE"] # "ALX_prodev" =>
                      conns[c].database # conns[d].database
               /\ conns[c].database = conns[d].database
                      <=> \/ ~IsSet("DB_NAME") /\ ~IsSet("DB_DATABASE")
                          \/ /\ IsSet("DB_NAME") /\ IsSet("DB_DATABASE")
                             /\ env["DB_NAME"] = env["DB_DATABASE"]
                          \/ /\ IsSet("DB_NAME") /\ ~IsSet("DB_DATABASE")
                             /\ env["DB_NAME"] = "ALX_prodev"
                          \/ /\ ~IsSet("DB_NAME") /\ IsSet("DB_DATABASE")
                             /\ env["DB_DATABASE"] = "ALX_prodev"

(* With DB_NAME set to other_db and DB_DATABASE unset, stream_users and
   stream_user_ages are connected to different databases. *)
C21_Witness ==
    /\ IsSet("DB_NAME") /\ ~IsSet("DB_DATABASE")
    /\ env["DB_NAME"] = "other_db"
    /\ \E c \in DOMAIN conns, d \in DOMAIN conns :
           /\ gens[conns[c].owner].kind = "stream_users"
           /\ gens[conns[d].owner].kind = "stream_user_ages"
           /\ conns[c].database = "other_db"
           /\ conns[d].database = "ALX_prodev"

(* ceil(n / d) for d > 0 *)
Ceil(n, d) == (n + d - 1) \div d

(* C22: without writes, lazy_paginate(page_size) on N rows ends, having
   yielded ceil(N / page_size) pages, each non-empty and of page_size rows
   but for a shorter last one, and having run ceil(N / page_size) + 1
   queries, each on a connection of its own that is released, the last
   returning the empty page, which is not yielded. *)
C22_PagesAndQueries ==
    /\ [](\A g \in DOMAIN gens :
              LET pages == Ceil(Len(table), gens[g].size)
              IN  /\ Len(gens[g].yielded) <= pages
                  /\ Len(gens[g].queries) <= pages + 1
                  /\ \A i \in DOMAIN gens[g].yielded :
                         /\ gens[g].yielded[i] # <<>>
                         /\ Len(gens[g].yielded[i]) <= gens[g].size
                         /\ i < pages =>
                                Len(gens[g].yielded[i]) = gens[g].size
                         /\ i = pages =>
                                Len(gens[g].yielded[i])
                                    = Len(table) - (pages - 1) * gens[g].size
                  /\ Exhausted(g) =>
                         /\ Len(gens[g].yielded) = pages
                         /\ Len(gens[g].queries) = pages + 1
                         /\ gens[g].connects = pages + 1
                         /\ Cardinality(ConnsOf(g)) = pages + 1
                         /\ OpenConnsOf(g) = {}
                         /\ gens[g].page = <<>>
                         /\ Last(gens[g].fetches) = 0)
    /\ <>(\A g \in DOMAIN gens : Exhausted(g))

(* Three rows in pages of two: two pages, the second of one row, and
   three queries. *)
C22_Witness ==
    \E g \in DOMAIN gens :
        /\ Exhausted(g)
        /\ Len(table) = 3 /\ gens[g].size = 2
        /\ Len(gens[g].yielded) = 2
        /\ Len(gens[g].yielded[2]) = 1
        /\ Len(gens[g].queries) = 3
        /\ Len(conns) = 3

(* C23: with finitely many rows inserted while the consumer keeps
   pulling, lazy_paginate reaches an empty page and ends; and it ends
   only if fewer than page_size rows per gap between two page fetches
   were inserted: when it has ended after yielding pages, the rows
   inserted are fewer than page_size times the number of gaps, so a
   writer that inserts at least page_size rows in every gap keeps it from
   ending. *)
C23_TerminationUnderInserts ==
    /\ <>(\A g \in DOMAIN gens : Exhausted(g))
    /\ [](\A g \in DOMAIN gens :
              /\ Exhausted(g) /\ gens[g].yielded # <<>> =>
                     writes < Len(gens[g].yielded) * gens[g].size
              /\ gens[g].yielded # <<>>
                     /\ writes >= Len(gens[g].yielded) * gens[g].size =>
                     gens[g].pc # "closed")

(* A one-row table paginated by one: the writer inserted a row in each of
   the two gaps and a third page was yielded. *)
C23_Witness ==
    \E g \in DOMAIN gens :
        /\ gens[g].size = 1
        /\ writes = 2
        /\ Cardinality({i \in DOMAIN table : table[i].user_id > 0}) = 1
        /\ Len(gens[g].yielded) = 3
        /\ gens[g].pc = "suspended"

(* The statement of C24 as it stands: with page_size <= 0 or
   batch_size <= 0 on a table that has rows, the iteration does not
   complete normally, and in particular does not return after yielding
   nothing. *)
C24_Original ==
    \A g \in DOMAIN gens :
        gens[g].size <= 0 /\ table # <<>> => ~Exhausted(g)

(* C24: with page_size <= 0 or batch_size <= 0 on a table that has rows,
   the iteration does not go on forever and never yields an empty page or
   batch.  lazy_paginate yields nothing: with page_size = 0 it returns
   after a single query, its connection released, and with page_size < 0
   it ends only by the error of its first query.  What
   stream_users_in_batches does is left to the driver's fetchmany. *)
C24_NonPositive ==
    \A g \in DOMAIN gens :
        gens[g].size <= 0 /\ table # <<>> =>
            /\ \A i \in DOMAIN gens[g].yielded : gens[g].yielded[i] # <<>>
            /\ Len(gens[g].queries) <= 1
            /\ Len(gens[g].fetches) <= Len(table) + 1
            /\ gens[g].kind = "lazy_paginate" =>
                   /\ gens[g].yielded = <<>>
                   /\ Exhausted(g) =>
                          /\ gens[g].size = 0
                          /\ Len(gens[g].queries) = 1
                          /\ OpenConnsOf(g) = {}
                   /\ gens[g].pc = "closed" /\ gens[g].size < 0 =>
                          /\ gens[g].how = "raise"
                          /\ gens[g].err = "execute"
                          /\ gens[g].queries = <<>>

(* lazy_paginate(0) on a table that has rows returned after its one query,
   having yielded nothing. *)
C24_Witness ==
    \E g \in DOMAIN gens :
        /\ gens[g].kind = "lazy_paginate"
        /\ gens[g].size = 0
        /\ table # <<>>
        /\ Exhausted(g)
        /\ gens[g].yielded = <<>>
        /\ Len(gens[g].queries) = 1

(* C25: creating a producer acquires nothing.  A producer that was not
   pulled has made no connection attempt, has no connection, has executed
   no query and read nothing, also after it was discarded; and whatever a
   producer acquired or yielded, it did on a pull: the generator whose
   body connects made its first attempt on the first pull, so a producer
   pulled twice has connected. *)
C25_CreationAcquiresNothing ==
    \A g \in DOMAIN gens :
        /\ gens[g].pulls = 0 =>
               /\ gens[g].connects = 0
               /\ gens[g].conn = 0
               /\ ConnsOf(g) = {}
               /\ gens[g].queries = <<>>
               /\ gens[g].fetches = <<>>
               /\ gens[g].yielded = <<>>
               /\ gens[g].child = 0
               /\ gens[g].pc \in {"created", "closed"}
        /\ gens[g].pulls >= 1 /\ gens[g].pc # "connect"
               /\ gens[g].kind # "batch_processing" =>
               gens[g].connects >= 1
        /\ gens[g].pulls >= 1 /\ gens[g].kind = "batch_processing" =>
               /\ gens[g].child \in DOMAIN gens
               /\ gens[gens[g].child].pulls >= 1
               /\ ConnsOf(g) = {}

(* A producer was created and discarded without a pull, and no connection
   was ever made. *)
C25_Witness ==
    \E g \in DOMAIN gens :
        /\ Abandoned(g)
        /\ gens[g].pulls = 0
        /\ conns = <<>>

(* The inner generator of g has ended and every connection it acquired is
   closed, once. *)
InnerReleased(g) ==
    /\ gens[g].child \in DOMAIN gens
    /\ gens[gens[g].child].pc = "closed"
    /\ gens[gens[g].child].conn = 0
    /\ \A c \in ConnsOf(gens[g].child) :
           ~conns[c].open /\ conns[c].closes = 1

(* C26: the connection of the stream_users_in_batches iteration inside
   batch_processing is released when the consumer stops.  A
   batch_processing that is exhausted has its inner iteration exhausted
   and the connection closed; one that is abandoned after k >= 1 filtered
   batches gets its inner iteration closed and the connection closed; the
   connection is the inner iteration's, one at most.  Every pull of
   batch_processing consumes one source batch or more: the filtered
   batches yielded are the non-empty images of the source batches
   consumed. *)
C26_InnerReleased ==
    /\ [](\A g \in DOMAIN gens :
              gens[g].kind = "batch_processing" /\ gens[g].child # 0 =>
                  LET c == gens[g].child
                  IN  /\ ConnsOf(g) = {}
                      /\ Cardinality(ConnsOf(c)) <= 1
                      /\ gens[c].pulls >= gens[g].pulls
                      /\ gens[g].pc \in {"suspended", "closed"} =>
                             gens[g].yielded = Images(gens[c].yielded)
                      /\ Exhausted(g) => Exhausted(c) /\ InnerReleased(g))
    /\ \A g \in 1..MaxGens, k \in 1..MaxRows :
           (/\ g \in DOMAIN gens
            /\ gens[g].kind = "batch_processing"
            /\ Abandoned(g)
            /\ Len(gens[g].yielded) = k)
               ~> (/\ g \in DOMAIN gens
                   /\ InnerReleased(g)
                   /\ Abandoned(gens[g].child))

(* batch_processing was abandoned after its first filtered batch, for which
   its one pull consumed two source batches, and the inner iteration's
   connection is closed. *)
C26_Witness ==
    \E g \in DOMAIN gens :
        /\ gens[g].kind = "batch_processing"
        /\ Abandoned(g)
        /\ gens[g].pulls = 1
        /\ Len(gens[g].yielded) = 1
        /\ Len(gens[gens[g].child].yielded) = 2
        /\ gens[gens[g].child].pulls = 2
        /\ InnerReleased(g)
        /\ Cardinality(ConnsOf(gens[g].child)) = 1

(* C27: RestrictAccessByTimeMiddleware forwards a request to get_response
   exactly when the server time t satisfies 06:00 <= t <= 21:00, and
   answers 403 without forwarding it exactly otherwise. *)
C27_AvailableHours ==
    access.handled =>
        /\ access.forwarded <=>
               /\ TimeLE(time(6, 0, 0, 0), access.time)
               /\ TimeLE(access.time, time(21, 0, 0, 0))
        /\ access.status = 403 <=> ~access.forwarded

(* The number of times ts occurs in the sequence s. *)
Occurrences(s, ts) == Cardinality({j \in DOMAIN s : s[j] = ts})

(* C28: with the requests of one client IP handled by several threads that
   share the middleware instance, at most 5 chat POSTs of the IP are
   passed to get_response in any 60 seconds, and the timestamp of every
   request passed on in the last 60 seconds is in request_history. *)
C28_ConcurrentRateLimit ==
    /\ \A i \in DOMAIN served :
           Cardinality(ServedIn(served[i].ip, served[i].time)) <= 5
    /\ \A i \in DOMAIN served :
           now - served[i].time < time_window =>
               /\ served[i].ip \in DOMAIN request_history
               /\ Occurrences(request_history[served[i].ip], served[i].time)
                      >= Cardinality({j \in DOMAIN served :
                                         served[j] = served[i]})

(* C29: the last participant of a conversation cannot be removed: after
   any sequence or interleaving of remove_participant and
   leave_conversation requests, a conversation that is active has a
   participant. *)
C29_LastParticipantStays ==
    conversation.is_active => conversation.participants # {}

(* C30: connect_db() returns the open connection when connecting succeeds
   and a false value, None, when it fails, so that the if server_conn:
   guard runs create_database(server_conn) and server_conn.close() on a
   real connection only, and skips them after a failed connect. *)
C30_ConnectDbResult ==
    /\ seed.pc # "start" =>
           /\ seed.server_up =>
                  seed.server_conn.type = "MySQLConnection"
           /\ ~seed.server_up => ~Truthy(seed.server_conn)
    /\ seed.pc = "create_database" =>
           seed.server_conn.type = "MySQLConnection" /\ seed.server_conn.open
    /\ seed.created \/ seed.closed => seed.server_up
    /\ seed.error = "none"

====
